---- MODULE Spec2Model ----
(***************************************************************************)
(* Face deduplication and identity-verification engine of HireGuard.       *)
(*                                                                         *)
(*   FacePlusPlusManager  (faceplusplus_manager.py): the provider client,  *)
(*                        its retry loop _make_request and the five        *)
(*                        provider operations built on it.                 *)
(*   FaceVerification     (face_verification.py): attribute validation,    *)
(*                        search_similar_faces, save_face_data and the     *)
(*                        orchestrator verify_face.                        *)
(*   DBManager            the persistence collaborator; its code is not    *)
(*                        part of the sources, its contract is.            *)
(*                                                                         *)
(* Spec        : sequential verify_face calls against a faulty provider    *)
(*               and a faulty persistent store.                            *)
(* SpecRequest : one _make_request call at a time, for every sequence of   *)
(*               provider responses, with the clock the rate gate reads.   *)
(* SpecGate    : several threads of control entering _handle_rate_limit of *)
(*               one client, interleaved statement by statement.           *)
(* SpecRegister: concurrent verify_face calls inside save_face_data,       *)
(*               interleaved at the awaited store and provider calls.      *)
(* SpecRace    : two concurrent verify_face calls for one person, from    *)
(*               their duplicate search to the end of registration.        *)
(* SpecNormalize: resize_image_if_needed applied to one image, for every   *)
(*               sequence of encoded sizes.                                *)
(* SpecChat    : the chatbot's background vector store loader against the  *)
(*               chat handlers that read its state.                        *)
(* SpecFair, SpecNormalizeFair, SpecChatFair: the same with the running    *)
(*               call, normalisation or loader thread always continued.    *)
(***************************************************************************)
EXTENDS Integers, Sequences, FiniteSets, TLC

\* ------------------------------------------------------------------------
\* Bounds of the model
\* ------------------------------------------------------------------------
MaxCalls == 2
CapacityLimit == 2
MaxOps == 2
MaxTime == 10

\* ------------------------------------------------------------------------
\* Program constants
\* ------------------------------------------------------------------------
max_retries == 3
retry_delay == 2
confidence_threshold == 90
min_face_quality == 40
return_count == 5
max_dimension == 2048
min_dimension == 48
FirstQuality == 90
QualityStep == 5
QualityFloor == 20
ShrinkQuality == 85
LastResortQuality == 70
\* The scale of the dimension loop in tenths: 0.8 down to 0.3.
FirstScale == 8
ScaleFloor == 3
\* The largest side the JPEG encoder behind img.save accepts.
JpegMaxSide == 65500

\* ------------------------------------------------------------------------
\* Values
\* ------------------------------------------------------------------------
\* Optional values: None is the empty sequence, Some(x) the one-element one.
None == <<>>
Some(x) == <<x>>
NoResult == [kind |-> "none"]
\* The body of a call that handed back nothing usable.
NoBody == [shape |-> "none", malformed |-> TRUE, faces |-> <<>>]

\* Python's str(e) of an HTTPException: "<status_code>: <detail>".
HTTPException(status_code, detail) ==
    [type |-> "HTTPException", status_code |-> status_code, detail |-> detail]

\* A failure of the persistence collaborator (any non-HTTP exception).
DBError ==
    [type |-> "Exception", status_code |-> 0, detail |-> <<"database error">>]

StrOf(e) ==
    IF e.type = "HTTPException"
    THEN <<ToString(e.status_code)>> \o e.detail
    ELSE e.detail

\* ------------------------------------------------------------------------
\* Provider responses (one per outbound HTTP request)
\* ------------------------------------------------------------------------
RateLimitMessage == "CONCURRENCY_LIMIT_EXCEEDED"

TransportFailure ==
    [kind |-> "transport_error", status_code |-> 0, error_message |-> None,
     body |-> NoBody]

UnparseableBody ==
    [kind |-> "not_json", status_code |-> 200, error_message |-> None,
     body |-> NoBody]

JsonResponse(status_code, error_message, body) ==
    [kind |-> "json", status_code |-> status_code,
     error_message |-> error_message, body |-> body]

\* Responses that carry no usable result, whatever the operation.
FaultResponses ==
    {TransportFailure, UnparseableBody,
     JsonResponse(403, Some(RateLimitMessage), NoBody),
     JsonResponse(200, Some(RateLimitMessage), NoBody),
     JsonResponse(401, Some("AUTHENTICATION_ERROR"), NoBody),
     JsonResponse(200, Some("AUTHENTICATION_ERROR"), NoBody),
     JsonResponse(500, None, NoBody)}

OkResponse(body) == JsonResponse(200, None, body)

\* A rate-limit answer whose error_message says more than the bare code.
VerboseRateLimitResponse ==
    JsonResponse(403, Some("CONCURRENCY_LIMIT_EXCEEDED: slow down"), NoBody)

\* The provider's answer to an operation on an outer_id it does not have.
UnknownGalleryMessage == "INVALID_OUTER_ID"
UnknownGalleryResponse == JsonResponse(400, Some(UnknownGalleryMessage), NoBody)

\* ------------------------------------------------------------------------
\* FacePlusPlusManager._make_request: one iteration of the retry loop.
\* attempt is the 0-based loop index, resp the provider's answer to the
\* request of this iteration.  The result says what the loop does next.
\* ------------------------------------------------------------------------
Retry(wait) == [kind |-> "retry", wait |-> wait]

\* Faulty variant: the result is dropped, the caller gets None.
ReturnNone(body) == [kind |-> "return", body |-> NoBody]

Return(body) == [kind |-> "return", body |-> body]
Raise(status_code, detail) ==
    [kind |-> "raise", exc |-> HTTPException(status_code, detail)]

\* Faulty variant: the last retry is never taken.
HasAttemptsLeftOffByOne(attempt) == attempt < max_retries - 2

HasAttemptsLeft(attempt) == attempt < max_retries - 1

\* Python's "text in s" on two strings.
StrContains(s, text) ==
    \E i \in 1..(Len(s) - Len(text) + 1) :
        SubSeq(s, i, i + Len(text) - 1) = text

\* Line 181: the body has an error_message and the text occurs in it.
IsRateLimitError(resp) ==
    /\ resp.error_message # None
    /\ StrContains(resp.error_message[1], RateLimitMessage)

\* Faulty variant: the 0-based loop index is the factor.
BackoffWaitZeroBased(attempt) == retry_delay * attempt

BackoffWait(attempt) == retry_delay * (attempt + 1)

\* json.dumps(result) inside the detail of a non-200 failure.
JsonDumps(resp) ==
    resp.error_message

MakeRequestAttempt(operation, attempt, resp) ==
    CASE resp.kind = "transport_error" ->
            IF HasAttemptsLeft(attempt)
            THEN Retry(retry_delay)
            ELSE Raise(503, <<"API request failed in", operation>>)
      [] resp.kind = "not_json" ->
            IF HasAttemptsLeft(attempt)
            THEN Retry(retry_delay)
            ELSE Raise(500, <<"Invalid response from Face++ API in", operation>>)
      [] OTHER ->
            IF IsRateLimitError(resp) /\ HasAttemptsLeft(attempt)
            THEN Retry(BackoffWait(attempt))
            ELSE IF resp.status_code # 200
            THEN Raise(resp.status_code, <<operation, "failed">> \o JsonDumps(resp))
            ELSE IF resp.error_message # None
            THEN Raise(400, <<operation, "failed">> \o resp.error_message)
            ELSE Return(resp.body)

\* for attempt in range(self.max_retries)
InRange(attempt) == attempt < max_retries

\* Leaving the loop without return or raise hands back None.
FallThrough == Return(NoBody)

\* Faulty variant: a loop that retries whenever the condition is retryable.
MakeRequestStepUnbounded(operation, attempt, resp) ==
    IF resp.kind \in {"transport_error", "not_json"} THEN Retry(retry_delay)
    ELSE IF IsRateLimitError(resp) THEN Retry(BackoffWait(attempt))
    ELSE MakeRequestAttempt(operation, attempt, resp)

\* One pass through the loop, with the loop's own bound: a retry is taken
\* only while the range has another index.
MakeRequestStep(operation, attempt, resp) ==
    LET r == MakeRequestAttempt(operation, attempt, resp)
    IN IF r.kind = "retry" /\ ~InRange(attempt + 1) THEN FallThrough ELSE r

\* ------------------------------------------------------------------------
\* FacePlusPlusManager._handle_rate_limit.  Time is counted in seconds.
\* ------------------------------------------------------------------------
\* self.last_request_time = 0 in __init__.
InitialLastRequestTime == 0

\* time.time() when the client is first used: far from the initial stamp.
StartTime == InitialLastRequestTime + retry_delay

\* Faulty variant: the gate never sleeps.
SleepTimeNone(current_time, last) == 0

\* Lines 156-161: the time the gate sleeps, 0 when it does not sleep.
SleepTime(current_time, last) ==
    LET time_since_last_request == current_time - last
    IN IF time_since_last_request < retry_delay
       THEN retry_delay - time_since_last_request
       ELSE 0

\* ------------------------------------------------------------------------
\* Bodies of successful (status 200, no error_message) provider answers
\* ------------------------------------------------------------------------
QualityValues == {0, 30, 80}

\* The attributes of a detected face: which of gender, age and ethnicity
\* are present, and the facequality value (None: key absent).
AttributeSets ==
    [gender : BOOLEAN, age : BOOLEAN, ethnicity : BOOLEAN,
     facequality : {None} \cup {Some(q) : q \in QualityValues}]

DetectBody(faces) == [shape |-> "detect", faces |-> faces]
Face(face_token, attributes) ==
    [face_token |-> face_token, attributes |-> attributes]

DetectBodies(face_token) ==
    {DetectBody(<<>>)} \cup
    {DetectBody(<<Face(face_token, a)>>) : a \in AttributeSets}

\* One entry of the provider's "results" list.  confidence = None models
\* an entry without a confidence key.
SearchResult(confidence, face_token) ==
    [confidence |-> confidence, face_token |-> face_token]
SearchResults ==
    {SearchResult(Some(89), 1), SearchResult(Some(90), 1),
     SearchResult(Some(90), 2), SearchResult(Some(95), 1),
     SearchResult(None, 1)}

SeqsUpTo(S, n) == UNION {[1..k -> S] : k \in 0..n}

MalformedBody(shape) == [shape |-> shape, malformed |-> TRUE]
SearchBody(results) == [shape |-> "search", malformed |-> FALSE, results |-> results]
\* A gallery holding n faces answers a search with at most n results and
\* at most return_result_count of them.
SearchBodies(n) ==
    {MalformedBody("search")} \cup
    {SearchBody(rs) :
        rs \in SeqsUpTo(SearchResults, IF n < return_count THEN n ELSE return_count)}

CreateBody == [shape |-> "create", malformed |-> FALSE]
AddBody == [shape |-> "add", malformed |-> FALSE]
DetailBody(face_count) ==
    [shape |-> "detail", malformed |-> FALSE, face_count |-> face_count]

\* ------------------------------------------------------------------------
\* FaceVerification._validate_face_attributes
\* ------------------------------------------------------------------------
IsEmptyAttributes(attributes) ==
    /\ ~attributes.gender
    /\ ~attributes.age
    /\ ~attributes.ethnicity
    /\ attributes.facequality = None

\* attributes.get('facequality', {}).get('value', 0)
FaceQualityOf(attributes) ==
    IF attributes.facequality = None THEN 0 ELSE attributes.facequality[1]

HasHumanAttribute(attributes) ==
    attributes.gender \/ attributes.age \/ attributes.ethnicity

\* Faulty variant: a quality score below min_face_quality is rejected.
ValidateFaceAttributesRejectLowQuality(attributes) ==
    IF IsEmptyAttributes(attributes)
    THEN <<FALSE, "No face attributes detected">>
    ELSE IF ~HasHumanAttribute(attributes)
    THEN <<FALSE, "Unable to detect human face characteristics">>
    ELSE IF FaceQualityOf(attributes) > 0
            /\ FaceQualityOf(attributes) < min_face_quality
    THEN <<FALSE, "Unable to detect human face characteristics">>
    ELSE <<TRUE, "Valid human face detected">>

\* Faulty variant: only empty attributes are rejected.
ValidateFaceAttributesEmptyOnly(attributes) ==
    IF IsEmptyAttributes(attributes)
    THEN <<FALSE, "No face attributes detected">>
    ELSE <<TRUE, "Valid human face detected">>

ValidateFaceAttributes(attributes) ==
    IF IsEmptyAttributes(attributes)
    THEN <<FALSE, "No face attributes detected">>
    ELSE IF ~HasHumanAttribute(attributes)
    THEN <<FALSE, "Unable to detect human face characteristics">>
    ELSE <<TRUE, "Valid human face detected">>

\* ------------------------------------------------------------------------
\* FaceVerification.search_similar_faces: filtering and ranking
\* ------------------------------------------------------------------------
FaceVerificationMatch(confidence, face_token) ==
    [confidence |-> confidence, face_token |-> face_token]

\* float(result.get('confidence', 0))
ConfidenceOf(result) ==
    IF result.confidence = None THEN 0 ELSE result.confidence[1]

\* Faulty variant: > instead of >=.
MeetsThresholdStrictly(result) == ConfidenceOf(result) > confidence_threshold

MeetsThreshold(result) == ConfidenceOf(result) >= confidence_threshold

ToMatch(result) == FaceVerificationMatch(ConfidenceOf(result), result.face_token)

RECURSIVE MatchesAboveThreshold(_)
MatchesAboveThreshold(results) ==
    IF results = <<>> THEN <<>>
    ELSE (IF MeetsThreshold(Head(results))
          THEN <<ToMatch(Head(results))>> ELSE <<>>)
         \o MatchesAboveThreshold(Tail(results))

\* Faulty variant: an unstable descending sort (equal confidences swap).
RECURSIVE InsertByConfidenceUnstable(_, _)
InsertByConfidenceUnstable(m, sorted) ==
    IF sorted = <<>> THEN <<m>>
    ELSE IF Head(sorted).confidence > m.confidence
    THEN <<Head(sorted)>> \o InsertByConfidenceUnstable(m, Tail(sorted))
    ELSE <<m>> \o sorted

\* sorted(matches, key=confidence, reverse=True): a stable sort, so m goes
\* behind every element whose confidence is >= its own.
RECURSIVE InsertByConfidence(_, _)
InsertByConfidence(m, sorted) ==
    IF sorted = <<>> THEN <<m>>
    ELSE IF Head(sorted).confidence >= m.confidence
    THEN <<Head(sorted)>> \o InsertByConfidence(m, Tail(sorted))
    ELSE <<m>> \o sorted

RECURSIVE SortedByConfidenceAcc(_, _)
SortedByConfidenceAcc(matches, acc) ==
    IF matches = <<>> THEN acc
    ELSE SortedByConfidenceAcc(Tail(matches),
                               InsertByConfidence(Head(matches), acc))

SortedByConfidence(matches) == SortedByConfidenceAcc(matches, <<>>)

\* ------------------------------------------------------------------------
\* DBManager, the persistence collaborator.  The store is the list of
\* gallery records in enumeration order.
\* ------------------------------------------------------------------------
GalleryRecord(id, tokens, face_count) ==
    [id |-> id, tokens |-> tokens, face_count |-> face_count]

StoredIds(store) == {store[i].id : i \in 1..Len(store)}

\* get_all_stored_faces: gallery id -> stored descriptors, in dict order.
get_all_stored_faces(store) ==
    [i \in 1..Len(store) |-> [id |-> store[i].id, tokens |-> store[i].tokens]]

\* find_available_faceset: the first gallery with room, or None.
find_available_faceset(store) ==
    LET free == {i \in 1..Len(store) : store[i].face_count < CapacityLimit}
    IN IF free = {} THEN None
       ELSE LET i == CHOOSE k \in free : \A j \in free : k <= j
            IN Some(<<store[i].id, store[i].face_count>>)

\* save_face_token: record the descriptor under its gallery.
save_face_token(store, tok, id) ==
    IF id \in StoredIds(store)
    THEN [i \in 1..Len(store) |->
            IF store[i].id = id
            THEN [store[i] EXCEPT !.tokens = Append(@, tok)]
            ELSE store[i]]
    ELSE Append(store, GalleryRecord(id, <<tok>>, 0))

\* update_faceset_count: overwrite the gallery's recorded occupancy.
update_faceset_count(store, id, face_count) ==
    [i \in 1..Len(store) |->
        IF store[i].id = id
        THEN [store[i] EXCEPT !.face_count = face_count]
        ELSE store[i]]

\* ------------------------------------------------------------------------
\* The provider's galleries: id -> number of faces, Unknown when the
\* provider has no such gallery.
\* ------------------------------------------------------------------------
Unknown == None
ProbeToken(n) == 10 + n
NewOuterId(n) == 100 + n

\* Three verify_face calls that found no duplicate and are about to
\* enter save_face_data, each with its own probe descriptor.
Tasks == {"task_a", "task_b", "task_c"}

\* A call creates at most one gallery (line 92), be it one of the
\* sequential calls or one of the concurrent ones.
MostCreated ==
    IF MaxCalls >= Cardinality(Tasks) THEN MaxCalls ELSE Cardinality(Tasks)

GalleryUniverse == {1, 2} \cup {NewOuterId(n) : n \in 1..MostCreated}

NoGalleries == [g \in GalleryUniverse |-> Unknown]

\* Starting points: (persistent store, provider galleries).
InitialWorlds ==
    { \* nothing registered yet
      [store |-> <<>>, provider |-> NoGalleries],
      \* one gallery with room
      [store |-> <<GalleryRecord(1, <<1>>, 1)>>,
       provider |-> [NoGalleries EXCEPT ![1] = Some(1)]],
      \* two galleries with one face each
      [store |-> <<GalleryRecord(1, <<1>>, 1), GalleryRecord(2, <<2>>, 1)>>,
       provider |-> [NoGalleries EXCEPT ![1] = Some(1), ![2] = Some(1)]],
      \* a gallery without recorded faces before a populated one
      [store |-> <<GalleryRecord(1, <<>>, 0), GalleryRecord(2, <<2>>, 1)>>,
       provider |-> [NoGalleries EXCEPT ![1] = Some(0), ![2] = Some(1)]],
      \* a local record the provider no longer recognizes
      [store |-> <<GalleryRecord(1, <<1>>, 1)>>, provider |-> NoGalleries],
      \* local count below the provider's
      [store |-> <<GalleryRecord(1, <<1>>, 1)>>,
       provider |-> [NoGalleries EXCEPT ![1] = Some(CapacityLimit)]],
      \* the only gallery is full
      [store |-> <<GalleryRecord(1, <<1, 2>>, CapacityLimit)>>,
       provider |-> [NoGalleries EXCEPT ![1] = Some(CapacityLimit)]] }

\* ------------------------------------------------------------------------
\* VerificationResponse(...).dict()
\* ------------------------------------------------------------------------
VerificationResponse(status, message, is_duplicate, tok, confidence, ms) ==
    [status |-> status, message |-> message, is_duplicate |-> is_duplicate,
     face_token |-> tok, confidence |-> confidence, matches |-> ms]

NoFaceResponse ==
    VerificationResponse("error", <<"No face detected in image">>, FALSE,
                         None, None, None)

InvalidFaceResponse(message) ==
    VerificationResponse("error", <<message>>, FALSE, None, None, None)

\* Faulty variant: the last match of the list is reported as the best.
DuplicateResponseLastMatch(tok, ms) ==
    VerificationResponse("duplicate_found",
                         <<"Potential duplicate face detected">>, TRUE,
                         Some(tok), Some(ms[Len(ms)].confidence), Some(ms))

DuplicateResponse(tok, ms) ==
    VerificationResponse("duplicate_found",
                         <<"Potential duplicate face detected">>, TRUE,
                         Some(tok), Some(ms[1].confidence), Some(ms))

\* Faulty variant: the success response does not carry the descriptor.
SuccessResponseWithoutToken(tok) ==
    VerificationResponse("success", <<"New face registered successfully">>,
                         FALSE, None, None, None)

SuccessResponse(tok) ==
    VerificationResponse("success", <<"New face registered successfully">>,
                         FALSE, Some(tok), None, None)

\* The except branch of verify_face: message = str(e).
ErrorResponse(message) ==
    VerificationResponse("error", message, FALSE, None, None, None)

\* The exception search_similar_faces raises when the store cannot be read.
SearchError(inner) ==
    HTTPException(500, <<"Error during face search">> \o inner)

\* The exception save_face_data raises for any failure inside it.
SaveError(inner) ==
    HTTPException(500, <<"Error saving face data">> \o inner)

\* ------------------------------------------------------------------------
\* State
\* ------------------------------------------------------------------------
VARIABLES
    pc,            \* where the running verify_face / _make_request stands
    callNo,        \* verify_face calls started so far
    attempt,       \* _make_request: loop index of the current operation
    sent,          \* _make_request: requests.post calls of the operation
    waits,         \* _make_request: time.sleep durations of the operation
    reqOp,         \* SpecRequest: the operation handed to _make_request
    reqResult,     \* SpecRequest: what _make_request gave its caller
    responses,     \* SpecRequest: the provider's answers to the operation
    opsDone,       \* SpecRequest: operations completed
    db,            \* the persistent store
    fpp,           \* the provider's galleries
    created,       \* outer ids generated by create_new_faceset so far
    face_token,    \* verify_face: the probe descriptor
    facesets,      \* search_similar_faces: the enumerated galleries
    idx,           \* search_similar_faces: position in facesets
    matches,       \* search_similar_faces: matches in collection order
    ranked,        \* search_similar_faces: its return value
    faceset_id,    \* save_face_data: the gallery chosen for the write
    details,       \* save_face_data: face_count of the detail last fetched
    detailAnswer,  \* how the re-validation of the candidate gallery ended
    outcome,       \* what verify_face returned (None while running)
    escaped,       \* an exception left verify_face
    calls,         \* provider operations and store calls of this call
    detectAnswer,  \* how the Detect operation of this call ended
    provided,      \* results handed back by the successful searches
    searchedOk,    \* galleries whose search succeeded in this call
    searchFailed,  \* galleries whose search raised in this call
    attributes,    \* verify_face: the attributes detect_face returned
    faulted,       \* a provider or store call of this call failed
    added,         \* whose face each descriptor the provider accepted shows
    searches,      \* the data of the search operations of this call
    image_data,    \* resize_image_if_needed: the bytes handed in
    img,           \* resize_image_if_needed: the decoded image
    quality,       \* resize_image_if_needed: JPEG quality of the next save
    scale,         \* resize_image_if_needed: scale of the next shrink, tenths
    output,        \* resize_image_if_needed: the bytes returned
    raisedAt,      \* the step of resize_image_if_needed that raised
    encodes,       \* img.save calls made so far
    size_mb,       \* resize_image_if_needed: the encoded size last measured
    vector_state,  \* vectorstore.py: the module's VectorStoreState object
    loader,        \* where the background loader thread stands
    handlers,      \* each chat request handler's place and what it read
    now,           \* the clock, what time.time() reads
    last_request_time,  \* FacePlusPlusManager.last_request_time
    wakeAt,        \* the running time.sleep ends no earlier than this
    passes,        \* gate-pass times of the requests of the operation
    prevPass,      \* gate-pass time before the latest one, if any
    gate,          \* SpecGate: each caller's place in _handle_rate_limit
    tasks          \* concurrent verify_face calls in save_face_data

requestVars == <<attempt, sent, waits>>
harnessVars == <<reqOp, reqResult, responses, opsDone>>
worldVars == <<db, fpp, created>>
searchVars == <<facesets, idx, matches, ranked, provided, searchedOk, searchFailed>>
saveVars == <<faceset_id, details, detailAnswer>>
callVars == <<callNo, face_token, detectAnswer>>
gateVars == <<now, last_request_time, wakeAt, passes, prevPass>>
threadVars == <<gate, tasks>>
historyVars == <<attributes, faulted, added, searches>>
imageVars ==
    <<image_data, img, quality, scale, output, raisedAt, encodes, size_mb>>
chatVars == <<vector_state, loader, handlers>>

vars ==
    <<pc, callNo, attempt, sent, waits, reqOp, reqResult, responses, opsDone,
      db, fpp, created, face_token, facesets, idx, matches, ranked,
      faceset_id, details, detailAnswer, outcome, escaped, calls, detectAnswer, provided,
      searchedOk, searchFailed, now, last_request_time, wakeAt, passes,
      prevPass, gate, tasks, attributes, faulted, added, searches,
      image_data, img,
      quality, scale, output, raisedAt, encodes, size_mb,
      vector_state, loader, handlers>>

NotRanked == [done |-> FALSE, list |-> <<>>]
Ranked(list) == [done |-> TRUE, list |-> list]

InitCallLocals ==
    /\ face_token = None
    /\ facesets = <<>>
    /\ idx = 0
    /\ matches = <<>>
    /\ ranked = NotRanked
    /\ faceset_id = None
    /\ details = None
    /\ detailAnswer = "none"
    /\ outcome = None
    /\ escaped = FALSE
    /\ calls = <<>>
    /\ detectAnswer = "none"
    /\ provided = <<>>
    /\ searchedOk = {}
    /\ searchFailed = {}
    /\ attributes = None
    /\ faulted = FALSE
    /\ searches = <<>>

InitRequestLocals ==
    /\ attempt = 0
    /\ sent = 0
    /\ waits = <<>>

\* The client right after construction.  Spec does not follow the clock:
\* there the gate's variables keep these values.
InitGate ==
    /\ now = StartTime
    /\ last_request_time = InitialLastRequestTime
    /\ wakeAt = StartTime
    /\ passes = <<>>
    /\ prevPass = None

\* Bytes that are not an image.
NotAnImage ==
    [kind |-> "not_an_image", mode |-> "none", width |-> 0, height |-> 0,
     within_budget |-> TRUE]

\* No encoded size has been measured yet.
NotMeasured == "not_measured"

\* resize_image_if_needed is not running.
InitNormalizerIdle ==
    /\ image_data = NotAnImage
    /\ img = None
    /\ quality = 0
    /\ scale = 0
    /\ output = None
    /\ raisedAt = "none"
    /\ encodes = 0
    /\ size_mb = NotMeasured

\* Two threads of control share the client; neither has entered it yet.
Callers == {"caller_a", "caller_b"}

IdleCaller ==
    [pc |-> "idle", current_time |-> 0, wakeAt |-> 0, passedAt |-> None,
     stamp |-> None,
     requests |-> 0]

TaskToken(t) ==
    CASE t = "task_a" -> ProbeToken(1)
      [] t = "task_b" -> ProbeToken(2)
      [] OTHER -> ProbeToken(3)

NewTask ==
    [pc |-> "find_available_faceset", faceset_id |-> None, details |-> None]

InitThreads ==
    /\ gate = [c \in Callers |-> IdleCaller]
    /\ tasks = [t \in Tasks |-> NewTask]

\* vectorstore.py lines 22-28: the state object made at import; the
\* store is absent, loading is under way and no error is recorded.
VectorStoreState ==
    [vectorstore |-> None, is_loading |-> TRUE, load_error |-> None]

\* Two chat requests in flight at a time.
Handlers == {"handler_a", "handler_b"}

\* What get_vectorstore gave its caller: kind is "not_called", "return"
\* or "raise".
Got(kind, value) == [kind |-> kind, value |-> value]

IdleHandler ==
    [pc |-> "idle", ready |-> None, got |-> Got("not_called", None),
     answer |-> "none"]

\* The chatbot module is not imported: no loader thread, no request.
InitChatIdle ==
    /\ vector_state = VectorStoreState
    /\ loader = [pc |-> "unstarted", error |-> None]
    /\ handlers = [h \in Handlers |-> IdleHandler]

Init ==
    /\ pc = "idle"
    /\ callNo = 0
    /\ InitRequestLocals
    /\ reqOp = "none"
    /\ reqResult = NoResult
    /\ responses = <<>>
    /\ opsDone = 0
    /\ \E w \in InitialWorlds : db = w.store /\ fpp = w.provider
    /\ created = 0
    /\ InitCallLocals
    /\ added = {}
    /\ InitNormalizerIdle
    /\ InitChatIdle
    /\ InitGate
    /\ InitThreads

\* ------------------------------------------------------------------------
\* _make_request bookkeeping shared by the five provider operations
\* ------------------------------------------------------------------------
RetryRequest(r) ==
    /\ attempt' = attempt + 1
    /\ sent' = sent + 1
    /\ waits' = Append(waits, r.wait)

\* The loop is left (return or raise): its locals are gone.
LeaveRequest ==
    /\ attempt' = 0
    /\ sent' = 0
    /\ waits' = <<>>

\* The operation is logged when its first request goes out.
Logged(operation) ==
    IF attempt = 0 THEN Append(calls, operation) ELSE calls

\* ------------------------------------------------------------------------
\* verify_face: the except branch, lines 184-193
\* ------------------------------------------------------------------------
\* Faulty variant: HTTP exceptions are re-raised, as the client methods do.
VerifyFaceReraise(e) ==
    IF e.type = "HTTPException"
    THEN [outcome |-> None, escaped |-> TRUE]
    ELSE [outcome |-> Some(ErrorResponse(StrOf(e))), escaped |-> FALSE]

VerifyFaceExcept(e) ==
    [outcome |-> Some(ErrorResponse(StrOf(e))), escaped |-> FALSE]

VerifyFaceFails(e) ==
    LET h == VerifyFaceExcept(e)
    IN /\ outcome' = h.outcome
       /\ escaped' = h.escaped
       /\ pc' = "done"

\* ------------------------------------------------------------------------
\* verify_face entry
\* ------------------------------------------------------------------------
StartCall ==
    /\ pc \in {"idle", "done"}
    /\ ~escaped
    /\ callNo < MaxCalls
    /\ callNo' = callNo + 1
    /\ pc' = "detect_face"
    /\ face_token' = None
    /\ facesets' = <<>>
    /\ idx' = 0
    /\ matches' = <<>>
    /\ ranked' = NotRanked
    /\ faceset_id' = None
    /\ details' = None
    /\ detailAnswer' = "none"
    /\ outcome' = None
    /\ escaped' = FALSE
    /\ calls' = <<>>
    /\ detectAnswer' = "none"
    /\ provided' = <<>>
    /\ searchedOk' = {}
    /\ searchFailed' = {}
    /\ attributes' = None
    /\ faulted' = FALSE
    /\ searches' = <<>>
    /\ UNCHANGED <<requestVars, harnessVars, imageVars, chatVars, gateVars, threadVars, worldVars,
                   added>>

\* ------------------------------------------------------------------------
\* detect_face and lines 124-148 of verify_face
\* ------------------------------------------------------------------------
\* detect_face's return value for the result r of its _make_request.
DetectFaceReturn(r) ==
    IF r.kind = "raise" THEN <<None, None>>
    ELSE IF r.body.faces = <<>> THEN <<None, None>>
    ELSE <<Some(r.body.faces[1].face_token),
           Some(r.body.faces[1].attributes)>>

\* How the Detect operation ended, as the provider saw it.
DetectSummary(r) ==
    IF r.kind = "raise" \/ r.body = NoBody THEN "raised"
    ELSE IF r.body.faces = <<>> THEN "zero_faces"
    ELSE LET a == r.body.faces[1].attributes
         IN IF a.gender \/ a.age \/ a.ethnicity THEN "face_with_traits"
            ELSE IF a.facequality = None THEN "face_empty_attributes"
            ELSE "face_quality_only"

\* Faulty variant: the attributes are validated before the token is tested.
AfterDetectValidateFirst(d) ==
    IF d[2] = None
    THEN [pc |-> "done",
          outcome |-> Some(InvalidFaceResponse("No face attributes detected")),
          face_token |-> None]
    ELSE LET v == ValidateFaceAttributes(d[2][1])
         IN IF ~v[1]
            THEN [pc |-> "done", outcome |-> Some(InvalidFaceResponse(v[2])),
                  face_token |-> None]
            ELSE [pc |-> "get_all_stored_faces", outcome |-> None,
                  face_token |-> d[1]]

\* verify_face once detect_face returned d = (face_token, attributes).
AfterDetect(d) ==
    IF d[1] = None
    THEN [pc |-> "done", outcome |-> Some(NoFaceResponse), face_token |-> None]
    ELSE LET v == ValidateFaceAttributes(d[2][1])
         IN IF ~v[1]
            THEN [pc |-> "done", outcome |-> Some(InvalidFaceResponse(v[2])),
                  face_token |-> None]
            ELSE [pc |-> "get_all_stored_faces", outcome |-> None,
                  face_token |-> d[1]]

DetectFace ==
    /\ pc = "detect_face"
    /\ \E resp \in FaultResponses \cup
                   {OkResponse(b) : b \in DetectBodies(ProbeToken(callNo))} :
         LET r == MakeRequestStep("detect_face", attempt, resp)
         IN /\ calls' = Logged("detect_face")
            /\ IF r.kind = "retry"
               THEN /\ RetryRequest(r)
                    /\ faulted' = TRUE
                    /\ UNCHANGED <<pc, outcome, face_token, detectAnswer,
                                   attributes>>
               ELSE LET next == AfterDetect(DetectFaceReturn(r))
                    IN /\ LeaveRequest
                       /\ faulted' = (faulted \/ r.kind = "raise")
                       /\ attributes' = DetectFaceReturn(r)[2]
                       /\ detectAnswer' = DetectSummary(r)
                       /\ pc' = next.pc
                       /\ outcome' = next.outcome
                       /\ face_token' = next.face_token
    /\ UNCHANGED <<callNo, harnessVars, imageVars, chatVars, gateVars, threadVars, worldVars,
                   searchVars, saveVars, escaped, added, searches>>

\* ------------------------------------------------------------------------
\* search_similar_faces and lines 150-165 of verify_face
\* ------------------------------------------------------------------------
\* Faulty variant: the loop ends after the first gallery it searched.
RECURSIVE NextNonEmptyOnce(_, _)
NextNonEmptyOnce(fs, i) ==
    IF i > Len(fs) THEN i
    ELSE IF \E j \in 1..(i - 1) : fs[j].tokens # <<>> THEN Len(fs) + 1
    ELSE IF fs[i].tokens # <<>> THEN i
    ELSE NextNonEmptyOnce(fs, i + 1)

\* The loop skips the galleries without recorded descriptors.
RECURSIVE NextNonEmpty(_, _)
NextNonEmpty(fs, i) ==
    IF i > Len(fs) THEN i
    ELSE IF fs[i].tokens # <<>> THEN i
    ELSE NextNonEmpty(fs, i + 1)

\* The provider's answers to a search of gallery g: any results within
\* the gallery's size, or a match with a descriptor it accepted into g
\* in an earlier call.
SearchAnswers(g) ==
    SearchBodies(fpp[g][1]) \cup
    {SearchBody(<<SearchResult(Some(95), a.face_token)>>) :
        a \in {b \in added : b.faceset_id = g}}

\* Faulty variant: only the best result is asked for.
SearchDataBestOnly(tok, outer_id) ==
    [face_token |-> tok, outer_id |-> outer_id, return_result_count |-> 1]

\* Lines 342-347: the data search_faces posts.
SearchData(tok, outer_id) ==
    [face_token |-> tok, outer_id |-> outer_id,
     return_result_count |-> return_count]

\* What search_faces hands back for the result r of its _make_request.
SearchFacesReturn(r) ==
    IF r.kind = "raise" THEN r
    ELSE IF r.body.malformed
    THEN Raise(500, <<"Face search failed: Invalid response format">>)
    ELSE Return(r.body.results)

\* Faulty variant: no try/except around the search of one gallery.
SearchOneFacesetNoCatch(ms, found) ==
    IF found.kind = "return"
    THEN [matches |-> ms \o MatchesAboveThreshold(found.body), abort |-> None]
    ELSE [matches |-> ms, abort |-> Some(found)]

\* One iteration of the loop over the galleries, lines 56-69: found is
\* what search_faces gave.  abort holds an exception leaving the loop.
SearchOneFaceset(ms, found) ==
    IF found.kind = "return"
    THEN [matches |-> ms \o MatchesAboveThreshold(found.body), abort |-> None]
    ELSE [matches |-> ms, abort |-> None]

\* Faulty variant: the match list is not consulted.
AfterSearchAlwaysSave(tok, list) ==
    [pc |-> "find_available_faceset", outcome |-> None]

\* verify_face once search_similar_faces returned the ranked list.
AfterSearch(tok, list) ==
    IF list # <<>>
    THEN [pc |-> "done", outcome |-> Some(DuplicateResponse(tok, list))]
    ELSE [pc |-> "find_available_faceset", outcome |-> None]

\* The loop goes on at position i with the matches ms collected so far;
\* past the last gallery the list is sorted and returned (line 71).
ContinueSearch(fs, i, ms) ==
    LET n == NextNonEmpty(fs, i)
    IN /\ matches' = ms
       /\ idx' = n
       /\ outcome' = None
       /\ IF n <= Len(fs)
          THEN /\ pc' = "search_faces"
               /\ ranked' = NotRanked
          ELSE /\ pc' = "search_returned"
               /\ ranked' = Ranked(SortedByConfidence(ms))

GetAllStoredFaces ==
    /\ pc = "get_all_stored_faces"
    /\ calls' = Append(calls, "get_all_stored_faces")
    /\ attributes' = None
    /\ \/ /\ facesets' = get_all_stored_faces(db)
          /\ ContinueSearch(facesets', 1, <<>>)
          /\ UNCHANGED <<escaped, faulted>>
       \/ /\ VerifyFaceFails(SearchError(StrOf(DBError)))
          /\ faulted' = TRUE
          /\ UNCHANGED <<facesets, idx, matches, ranked>>
    /\ UNCHANGED <<callVars, requestVars, harnessVars, imageVars, chatVars, gateVars, threadVars, worldVars, saveVars,
                   provided, searchedOk, searchFailed, added, searches>>

SearchFaces ==
    /\ pc = "search_faces"
    /\ LET g == facesets[idx].id
       IN \E resp \in FaultResponses \cup
                      (IF fpp[g] # Unknown
                       THEN {OkResponse(b) : b \in SearchAnswers(g)}
                       ELSE {UnknownGalleryResponse}) :
            LET r == MakeRequestStep("search_faces", attempt, resp)
            IN /\ calls' = Logged("search_faces")
               /\ searches' = IF attempt = 0
                              THEN Append(searches, SearchData(face_token[1], g))
                              ELSE searches
               /\ IF r.kind = "retry"
                  THEN /\ RetryRequest(r)
                       /\ faulted' = TRUE
                       /\ UNCHANGED <<pc, outcome, escaped, searchVars>>
                  ELSE LET found == SearchFacesReturn(r)
                           step == SearchOneFaceset(matches, found)
                       IN /\ LeaveRequest
                          /\ faulted' = (faulted \/ found.kind = "raise")
                          /\ provided' = IF found.kind = "return"
                                         THEN provided \o found.body
                                         ELSE provided
                          /\ searchedOk' = IF found.kind = "return"
                                           THEN searchedOk \cup {g}
                                           ELSE searchedOk
                          /\ searchFailed' = IF found.kind = "return"
                                             THEN searchFailed
                                             ELSE searchFailed \cup {g}
                          /\ UNCHANGED facesets
                          /\ IF step.abort = None
                             THEN /\ ContinueSearch(facesets, idx + 1, step.matches)
                                  /\ UNCHANGED escaped
                             ELSE /\ VerifyFaceFails(
                                        SearchError(StrOf(step.abort[1].exc)))
                                  /\ UNCHANGED <<idx, matches, ranked>>
    /\ UNCHANGED <<callVars, harnessVars, imageVars, chatVars, gateVars, threadVars, worldVars,
                   saveVars, attributes, added>>

\* verify_face takes the list search_similar_faces returned, lines
\* 151-165.  Without a match it goes on to save_face_data and the locals
\* of the finished search are gone.
SearchReturned ==
    /\ pc = "search_returned"
    /\ LET next == AfterSearch(face_token[1], ranked.list)
       IN /\ pc' = next.pc
          /\ outcome' = next.outcome
          /\ IF next.pc = "done"
             THEN UNCHANGED <<facesets, idx, matches, provided>>
             ELSE /\ facesets' = <<>>
                  /\ idx' = 0
                  /\ matches' = <<>>
                  /\ provided' = <<>>
    /\ UNCHANGED <<callVars, requestVars, harnessVars, imageVars, chatVars, gateVars, threadVars, worldVars, saveVars,
                   ranked, searchedOk, searchFailed, escaped, calls,
                   historyVars>>

\* ------------------------------------------------------------------------
\* save_face_data and lines 164-182 of verify_face
\* ------------------------------------------------------------------------
\* What an operation hands back for the result r of its _make_request
\* when it needs a key of the body: create_new_faceset (faceset_token),
\* add_face_to_faceset (face_added), get_faceset_detail (face_count).
OperationReturn(r, complaint) ==
    IF r.kind = "raise" THEN r
    ELSE IF r.body.malformed THEN Raise(500, <<complaint>>)
    ELSE Return(r.body)

\* Line 87: the re-validated candidate is dropped when the detail is
\* missing or reports an error.  get_faceset_detail hands back only
\* bodies that carry face_count, and _make_request raises on every body
\* with an error_message, so neither holds for a returned detail.
CandidateIsStale(detail) == detail = None

\* Any exception inside save_face_data is wrapped (lines 114-117) and
\* then caught by verify_face.
SaveFaceDataFails(e) == VerifyFaceFails(SaveError(StrOf(e)))

FindAvailableFaceset ==
    /\ pc = "find_available_faceset"
    /\ calls' = Append(calls, "find_available_faceset")
    /\ \/ LET faceset_info == find_available_faceset(db)
          IN /\ IF faceset_info # None
                THEN /\ faceset_id' = Some(faceset_info[1][1])
                     /\ pc' = "get_faceset_detail"
                ELSE /\ faceset_id' = None
                     /\ pc' = "create_new_faceset"
             /\ UNCHANGED <<outcome, escaped, faulted>>
       \/ /\ SaveFaceDataFails(DBError)
          /\ faulted' = TRUE
          /\ UNCHANGED faceset_id
    /\ UNCHANGED <<callVars, requestVars, harnessVars, imageVars, chatVars, gateVars, threadVars,
                   worldVars, searchVars, details, detailAnswer,
                   attributes, added, searches>>

\* The provider's answers to gallery-detail for gallery g.
DetailResponses(g) ==
    FaultResponses \cup
    (IF fpp[g] # Unknown
     THEN {OkResponse(DetailBody(fpp[g][1])), OkResponse(MalformedBody("detail"))}
     ELSE {UnknownGalleryResponse})

\* How the re-validation ended, as the provider answered it.
DetailSummary(resp, r) ==
    IF resp = UnknownGalleryResponse THEN "unknown_gallery"
    ELSE IF r.kind = "return" /\ ~r.body.malformed THEN "known"
    ELSE "failed"

GetFacesetDetail ==
    /\ pc = "get_faceset_detail"
    /\ \E resp \in DetailResponses(faceset_id[1]) :
         LET r == MakeRequestStep("get_faceset_detail", attempt, resp)
         IN /\ calls' = Logged("get_faceset_detail")
            /\ IF r.kind = "retry"
               THEN /\ RetryRequest(r)
                    /\ faulted' = TRUE
                    /\ UNCHANGED <<pc, outcome, escaped, saveVars>>
               ELSE LET got == OperationReturn(r,
                        "Failed to get FaceSet details: Invalid response format")
                    IN /\ LeaveRequest
                       /\ faulted' = (faulted \/ got.kind = "raise")
                       /\ detailAnswer' = DetailSummary(resp, r)
                       /\ IF got.kind = "raise"
                          THEN /\ SaveFaceDataFails(got.exc)
                               /\ UNCHANGED <<faceset_id, details>>
                          ELSE /\ details' = Some(got.body.face_count)
                               /\ IF CandidateIsStale(Some(got.body))
                                  THEN /\ faceset_id' = None
                                       /\ pc' = "create_new_faceset"
                                  ELSE /\ pc' = "add_face_to_faceset"
                                       /\ UNCHANGED faceset_id
                               /\ UNCHANGED <<outcome, escaped>>
    /\ UNCHANGED <<callVars, harnessVars, imageVars, chatVars, gateVars, threadVars, worldVars,
                   searchVars, attributes, added, searches>>

CreateNewFaceset ==
    /\ pc = "create_new_faceset"
    /\ LET new_outer_id == NewOuterId(IF attempt = 0 THEN created + 1 ELSE created)
       IN \E resp \in FaultResponses \cup
                      {OkResponse(CreateBody), OkResponse(MalformedBody("create"))} :
            LET r == MakeRequestStep("create_faceset", attempt, resp)
            IN /\ calls' = Logged("create_faceset")
               /\ created' = IF attempt = 0 THEN created + 1 ELSE created
               /\ fpp' = IF r.kind = "return" /\ ~r.body.malformed
                         THEN [fpp EXCEPT ![new_outer_id] = Some(0)]
                         ELSE fpp
               /\ IF r.kind = "retry"
                  THEN /\ RetryRequest(r)
                       /\ faulted' = TRUE
                       /\ UNCHANGED <<pc, outcome, escaped, faceset_id>>
                  ELSE LET got == OperationReturn(r,
                           "Failed to create FaceSet: Invalid response format")
                       IN /\ LeaveRequest
                          /\ faulted' = (faulted \/ got.kind = "raise")
                          /\ IF got.kind = "raise"
                             THEN /\ SaveFaceDataFails(got.exc)
                                  /\ UNCHANGED faceset_id
                             ELSE /\ faceset_id' = Some(new_outer_id)
                                  /\ pc' = "add_face_to_faceset"
                                  /\ UNCHANGED <<outcome, escaped>>
    /\ UNCHANGED <<callVars, harnessVars, imageVars, chatVars, gateVars, threadVars, db, searchVars,
                   details, detailAnswer, attributes, added, searches>>

\* A descriptor the provider accepted into a gallery, and the person
\* whose face it describes.  Persons are numbered in order of appearance.
Accepted(f, tok, g) == [face |-> f, face_token |-> tok, faceset_id |-> g]

PersonsAdded == {a.face : a \in added}

\* Faulty variant: the descriptor is persisted whatever the add gave.
AfterAddFaceIgnoreFailure(got) == [pc |-> "save_face_token", abort |-> None]

\* Lines 97-102: save_face_token is reached only when
\* add_face_to_faceset returned; its exception leaves save_face_data.
AfterAddFace(got) ==
    IF got.kind = "raise"
    THEN [pc |-> "done", abort |-> Some(got.exc)]
    ELSE [pc |-> "save_face_token", abort |-> None]

AddFaceToFaceset ==
    /\ pc = "add_face_to_faceset"
    /\ LET g == faceset_id[1]
       IN \E resp \in FaultResponses \cup
                      (IF fpp[g] # Unknown
                       THEN {OkResponse(AddBody), OkResponse(MalformedBody("add"))}
                       ELSE {UnknownGalleryResponse}) :
            LET r == MakeRequestStep("add_face", attempt, resp)
            IN /\ calls' = Logged("add_face")
               /\ fpp' = IF r.kind = "return" /\ ~r.body.malformed
                         THEN [fpp EXCEPT ![g] = Some(fpp[g][1] + 1)]
                         ELSE fpp
               /\ \E f \in 1..(Cardinality(PersonsAdded) + 1) :
                    added' = IF r.kind = "return" /\ ~r.body.malformed
                             THEN added \cup {Accepted(f, face_token[1], g)}
                             ELSE added
               /\ IF r.kind = "retry"
                  THEN /\ RetryRequest(r)
                       /\ faulted' = TRUE
                       /\ UNCHANGED <<pc, outcome, escaped>>
                  ELSE LET got == OperationReturn(r,
                           "Failed to add face: Invalid response format")
                       IN /\ LeaveRequest
                          /\ faulted' = (faulted \/ got.kind = "raise")
                          /\ LET next == AfterAddFace(got)
                             IN IF next.abort # None
                                THEN SaveFaceDataFails(next.abort[1])
                                ELSE /\ pc' = next.pc
                                     /\ UNCHANGED <<outcome, escaped>>
    /\ UNCHANGED <<callVars, harnessVars, imageVars, chatVars, gateVars, threadVars, db, created,
                   searchVars, saveVars, attributes, searches>>

SaveFaceToken ==
    /\ pc = "save_face_token"
    /\ calls' = Append(calls, "save_face_token")
    /\ \/ /\ db' = save_face_token(db, face_token[1], faceset_id[1])
          /\ pc' = "refresh_faceset_detail"
          /\ UNCHANGED <<outcome, escaped, faulted>>
       \/ /\ SaveFaceDataFails(
                HTTPException(500, <<"Failed to save face token to database">>))
          /\ faulted' = TRUE
          /\ UNCHANGED db
       \/ /\ SaveFaceDataFails(DBError)
          /\ faulted' = TRUE
          /\ UNCHANGED db
    /\ UNCHANGED <<callVars, requestVars, harnessVars, imageVars, chatVars, gateVars, threadVars, fpp, created, searchVars,
                   saveVars, attributes, added, searches>>

\* Faulty variant: the count written is the one of the detail fetched
\* before the add, when there was one.
CountToPersistStale(old, refreshed) ==
    IF old = None THEN refreshed ELSE old[1]

\* Lines 107-109: the count written is the face_count of the detail
\* fetched after the add.
CountToPersist(old, refreshed) == refreshed

RefreshFacesetDetail ==
    /\ pc = "refresh_faceset_detail"
    /\ \E resp \in DetailResponses(faceset_id[1]) :
         LET r == MakeRequestStep("get_faceset_detail", attempt, resp)
         IN /\ calls' = Logged("get_faceset_detail")
            /\ IF r.kind = "retry"
               THEN /\ RetryRequest(r)
                    /\ faulted' = TRUE
                    /\ UNCHANGED <<pc, outcome, escaped, details>>
               ELSE LET got == OperationReturn(r,
                        "Failed to get FaceSet details: Invalid response format")
                    IN /\ LeaveRequest
                       /\ faulted' = (faulted \/ got.kind = "raise")
                       /\ IF got.kind = "raise"
                          THEN /\ SaveFaceDataFails(got.exc)
                               /\ UNCHANGED details
                          ELSE /\ details' = Some(CountToPersist(details,
                                                   got.body.face_count))
                               /\ pc' = "update_faceset_count"
                               /\ UNCHANGED <<outcome, escaped>>
    /\ UNCHANGED <<callVars, harnessVars, imageVars, chatVars, gateVars, threadVars, worldVars,
                   searchVars, faceset_id, detailAnswer, attributes,
                   added, searches>>

\* Lines 108-112.  The store writes the count, or reports failure and
\* writes nothing, or raises; line 109 drops what the call returns, so
\* the first two end alike.
UpdateFacesetCount ==
    /\ pc = "update_faceset_count"
    /\ calls' = Append(calls, "update_faceset_count")
    /\ \/ /\ db' = update_faceset_count(db, faceset_id[1], details[1])
          /\ outcome' = Some(SuccessResponse(face_token[1]))
          /\ pc' = "done"
          /\ UNCHANGED <<escaped, faulted>>
       \/ /\ outcome' = Some(SuccessResponse(face_token[1]))
          /\ pc' = "done"
          /\ faulted' = TRUE
          /\ UNCHANGED <<db, escaped>>
       \/ /\ SaveFaceDataFails(DBError)
          /\ faulted' = TRUE
          /\ UNCHANGED db
    /\ UNCHANGED <<callVars, requestVars, harnessVars, imageVars, chatVars, gateVars, threadVars, fpp, created, searchVars,
                   saveVars, attributes, added, searches>>

\* ------------------------------------------------------------------------
\* Sequential verification calls
\* ------------------------------------------------------------------------
Next ==
    \/ StartCall
    \/ DetectFace
    \/ GetAllStoredFaces
    \/ SearchFaces
    \/ SearchReturned
    \/ FindAvailableFaceset
    \/ GetFacesetDetail
    \/ CreateNewFaceset
    \/ AddFaceToFaceset
    \/ SaveFaceToken
    \/ RefreshFacesetDetail
    \/ UpdateFacesetCount

Spec == Init /\ [][Next]_vars

\* A step of the call in progress: every provider request and every store
\* call returns or fails, and the code goes on from there.  When the next
\* call arrives is left open.
CallStep ==
    \/ DetectFace
    \/ GetAllStoredFaces
    \/ SearchFaces
    \/ SearchReturned
    \/ FindAvailableFaceset
    \/ GetFacesetDetail
    \/ CreateNewFaceset
    \/ AddFaceToFaceset
    \/ SaveFaceToken
    \/ RefreshFacesetDetail
    \/ UpdateFacesetCount

SpecFair == Spec /\ WF_vars(CallStep)

\* ------------------------------------------------------------------------
\* _make_request on its own: provider operations issued one after another
\* ------------------------------------------------------------------------
Operations ==
    {"detect_face", "search_faces", "create_faceset", "add_face",
     "get_faceset_detail"}

\* Bodies the provider may send for an operation.
RequestBodies(operation) ==
    CASE operation = "detect_face" -> DetectBodies(ProbeToken(1))
      [] operation = "search_faces" -> SearchBodies(1)
      [] operation = "create_faceset" -> {CreateBody, MalformedBody("create")}
      [] operation = "add_face" -> {AddBody, MalformedBody("add")}
      [] OTHER -> {DetailBody(1), MalformedBody("detail")}

InitRequest ==
    /\ pc = "make_request"
    /\ callNo = 0
    /\ InitRequestLocals
    /\ reqOp \in Operations
    /\ reqResult = NoResult
    /\ responses = <<>>
    /\ opsDone = 0
    /\ db = <<>>
    /\ fpp = NoGalleries
    /\ created = 0
    /\ InitCallLocals
    /\ added = {}
    /\ InitNormalizerIdle
    /\ InitChatIdle
    /\ InitGate
    /\ InitThreads

\* Top of the loop once a retry's sleep is over: _handle_rate_limit reads
\* the clock and the last stamp and goes to sleep for the remaining time
\* (lines 155-161).
HandleRateLimit ==
    /\ pc = "make_request"
    /\ now >= wakeAt
    /\ LET current_time == now
       IN wakeAt' = now + SleepTime(current_time, last_request_time)
    /\ pc' = "rate_limit_sleep"
    /\ UNCHANGED <<requestVars, harnessVars, now, last_request_time, passes,
                   prevPass, callVars, worldVars, searchVars, saveVars,
                   outcome, escaped, calls, threadVars, historyVars, imageVars, chatVars>>

\* The sleep, if any, is over: the gate stamps the request (line 163).
StampRequestTime ==
    /\ pc = "rate_limit_sleep"
    /\ now >= wakeAt
    /\ last_request_time' = now
    /\ passes' = Append(passes, now)
    /\ prevPass' = IF last_request_time = InitialLastRequestTime
                   THEN None ELSE Some(last_request_time)
    /\ pc' = "post"
    /\ UNCHANGED <<requestVars, harnessVars, now, wakeAt, callVars, worldVars,
                   searchVars, saveVars, outcome, escaped, calls, threadVars, historyVars, imageVars, chatVars>>

\* requests.post and the rest of the loop body, lines 172-222.  A retry
\* sleeps first (lines 185, 206, 216).
MakeRequest ==
    /\ pc = "post"
    /\ \E resp \in FaultResponses \cup {VerboseRateLimitResponse} \cup
                   {OkResponse(b) : b \in RequestBodies(reqOp)} :
         LET r == MakeRequestStep(reqOp, attempt, resp)
         IN /\ responses' = Append(responses, resp)
            /\ sent' = sent + 1
            /\ IF r.kind = "retry"
               THEN /\ attempt' = attempt + 1
                    /\ waits' = Append(waits, r.wait)
                    /\ wakeAt' = now + r.wait
                    /\ pc' = "make_request"
                    /\ UNCHANGED <<reqResult, opsDone>>
               ELSE /\ reqResult' = r
                    /\ pc' = "request_done"
                    /\ opsDone' = opsDone + 1
                    /\ UNCHANGED <<attempt, waits, wakeAt>>
    /\ UNCHANGED <<reqOp, now, last_request_time, passes, prevPass, callVars,
                   worldVars, searchVars, saveVars, outcome, escaped, calls, threadVars, historyVars, imageVars, chatVars>>

\* The caller issues its next operation.
NextOperation ==
    /\ pc = "request_done"
    /\ opsDone < MaxOps
    /\ reqOp' \in Operations
    /\ pc' = "make_request"
    /\ attempt' = 0
    /\ sent' = 0
    /\ waits' = <<>>
    /\ reqResult' = NoResult
    /\ responses' = <<>>
    /\ passes' = <<>>
    /\ UNCHANGED <<opsDone, now, last_request_time, wakeAt, prevPass, callVars,
                   worldVars, searchVars, saveVars, outcome, escaped, calls, threadVars, historyVars, imageVars, chatVars>>

\* A second passes.
Tick ==
    /\ now < MaxTime
    /\ now' = now + 1
    /\ UNCHANGED <<pc, requestVars, harnessVars, last_request_time, wakeAt,
                   passes, prevPass, callVars, worldVars, searchVars, saveVars,
                   outcome, escaped, calls, threadVars, historyVars, imageVars, chatVars>>

NextRequest ==
    \/ HandleRateLimit
    \/ StampRequestTime
    \/ MakeRequest
    \/ NextOperation
    \/ Tick

SpecRequest == InitRequest /\ [][NextRequest]_vars

\* ------------------------------------------------------------------------
\* _handle_rate_limit entered by concurrent callers of one client.  The
\* method takes no lock: its statements interleave freely.
\* ------------------------------------------------------------------------
InitGateCallers ==
    /\ pc = "gate"
    /\ callNo = 0
    /\ InitRequestLocals
    /\ reqOp = "none"
    /\ reqResult = NoResult
    /\ responses = <<>>
    /\ opsDone = 0
    /\ db = <<>>
    /\ fpp = NoGalleries
    /\ created = 0
    /\ InitCallLocals
    /\ added = {}
    /\ InitNormalizerIdle
    /\ InitChatIdle
    /\ InitGate
    /\ InitThreads

GateUnchanged ==
    UNCHANGED <<pc, requestVars, harnessVars, wakeAt, passes, prevPass,
                callVars, worldVars, searchVars, saveVars, outcome, escaped,
                calls, tasks, historyVars, imageVars, chatVars>>

\* Line 155: current_time = time.time().
GateReadClock(c) ==
    /\ gate[c].pc = "idle"
    /\ gate[c].requests < MaxOps
    /\ gate' = [gate EXCEPT ![c].pc = "check", ![c].current_time = now]
    /\ UNCHANGED <<now, last_request_time>>
    /\ GateUnchanged

\* Lines 156-161: read the shared stamp, sleep for the remaining time.
GateCheck(c) ==
    /\ gate[c].pc = "check"
    /\ gate' = [gate EXCEPT
                  ![c].pc = "sleep",
                  ![c].wakeAt =
                      now + SleepTime(gate[c].current_time, last_request_time)]
    /\ UNCHANGED <<now, last_request_time>>
    /\ GateUnchanged

\* Line 163, right-hand side: the sleep is over and time.time() is
\* called.  Another thread may run before its value is stored.
GateSampleClock(c) ==
    /\ gate[c].pc = "sleep"
    /\ now >= gate[c].wakeAt
    /\ gate' = [gate EXCEPT ![c].pc = "stamp_write", ![c].stamp = Some(now)]
    /\ UNCHANGED <<now, last_request_time>>
    /\ GateUnchanged

\* Line 163, the store: self.last_request_time receives the value
\* sampled.  The method returns, its locals are gone.
GateStamp(c) ==
    /\ gate[c].pc = "stamp_write"
    /\ last_request_time' = gate[c].stamp[1]
    /\ gate' = [gate EXCEPT ![c].pc = "post", ![c].passedAt = gate[c].stamp,
                             ![c].stamp = None,
                             ![c].current_time = 0, ![c].wakeAt = 0]
    /\ UNCHANGED now
    /\ GateUnchanged

\* Line 175: the request goes out; the caller may come back for another.
GatePost(c) ==
    /\ gate[c].pc = "post"
    /\ gate' = [gate EXCEPT ![c].pc = "idle", ![c].requests = @ + 1]
    /\ UNCHANGED <<now, last_request_time>>
    /\ GateUnchanged

NextGate ==
    \/ \E c \in Callers : GateReadClock(c)
    \/ \E c \in Callers : GateCheck(c)
    \/ \E c \in Callers : GateSampleClock(c)
    \/ \E c \in Callers : GateStamp(c)
    \/ \E c \in Callers : GatePost(c)
    \/ Tick

SpecGate == InitGateCallers /\ [][NextGate]_vars

\* ------------------------------------------------------------------------
\* save_face_data run by concurrent verify_face calls.  A call gives way
\* to the others at each awaited store or provider call; a provider
\* operation, retries included, is one step.
\* ------------------------------------------------------------------------
\* The ways _make_request can end for an operation whose successful
\* answers are oks.
OperationResults(operation, oks) ==
    {r \in {MakeRequestStep(operation, a, resp) :
                a \in 0..(max_retries - 1), resp \in FaultResponses \cup oks} :
        r.kind # "retry"}

\* The store and the provider agree on every gallery.
ConsistentWorlds ==
    {w \in InitialWorlds :
        /\ \A i \in 1..Len(w.store) :
              w.provider[w.store[i].id] = Some(w.store[i].face_count)
        /\ \A g \in GalleryUniverse :
              w.provider[g] # Unknown => g \in StoredIds(w.store)}

InitRegister ==
    /\ pc = "register"
    /\ callNo = 0
    /\ InitRequestLocals
    /\ reqOp = "none"
    /\ reqResult = NoResult
    /\ responses = <<>>
    /\ opsDone = 0
    /\ \E w \in ConsistentWorlds : db = w.store /\ fpp = w.provider
    /\ created = 0
    /\ InitCallLocals
    /\ added = {}
    /\ InitNormalizerIdle
    /\ InitChatIdle
    /\ InitGate
    /\ InitThreads

TaskUnchanged ==
    UNCHANGED <<pc, requestVars, harnessVars, gateVars, gate, callVars,
                searchVars, saveVars, outcome, escaped, calls, attributes,
                faulted, searches, imageVars, chatVars>>

\* The concurrent calls carry pictures of one person.
TaskFace(t) == 1

\* The exception is wrapped (lines 114-117) and ends the call.
TaskFails(t) == tasks' = [tasks EXCEPT ![t].pc = "failed"]

\* Line 81.
TaskFindAvailableFaceset(t) ==
    /\ tasks[t].pc = "find_available_faceset"
    /\ \/ LET faceset_info == find_available_faceset(db)
          IN tasks' = [tasks EXCEPT
                 ![t].faceset_id =
                     IF faceset_info # None
                     THEN Some(faceset_info[1][1]) ELSE None,
                 ![t].pc =
                     IF faceset_info # None
                     THEN "get_faceset_detail" ELSE "create_new_faceset"]
       \/ TaskFails(t)
    /\ UNCHANGED worldVars
    /\ UNCHANGED added
    /\ TaskUnchanged

\* Lines 86-89.
TaskGetFacesetDetail(t) ==
    /\ tasks[t].pc = "get_faceset_detail"
    /\ \E r \in OperationResults("get_faceset_detail",
                   DetailResponses(tasks[t].faceset_id[1]) \ FaultResponses) :
         LET got == OperationReturn(r,
                 "Failed to get FaceSet details: Invalid response format")
         IN IF got.kind = "raise"
            THEN TaskFails(t)
            ELSE tasks' = [tasks EXCEPT
                     ![t].details = Some(got.body.face_count),
                     ![t].faceset_id =
                         IF CandidateIsStale(Some(got.body)) THEN None ELSE @,
                     ![t].pc =
                         IF CandidateIsStale(Some(got.body))
                         THEN "create_new_faceset" ELSE "add_face_to_faceset"]
    /\ UNCHANGED worldVars
    /\ UNCHANGED added
    /\ TaskUnchanged

\* Lines 91-95.
TaskCreateNewFaceset(t) ==
    /\ tasks[t].pc = "create_new_faceset"
    /\ created' = created + 1
    /\ \E r \in OperationResults("create_faceset",
                   {OkResponse(CreateBody), OkResponse(MalformedBody("create"))}) :
         LET got == OperationReturn(r,
                 "Failed to create FaceSet: Invalid response format")
             new_outer_id == NewOuterId(created + 1)
         IN /\ fpp' = IF r.kind = "return" /\ ~r.body.malformed
                      THEN [fpp EXCEPT ![new_outer_id] = Some(0)]
                      ELSE fpp
            /\ IF got.kind = "raise"
               THEN TaskFails(t)
               ELSE tasks' = [tasks EXCEPT
                        ![t].faceset_id = Some(new_outer_id),
                        ![t].pc = "add_face_to_faceset"]
    /\ UNCHANGED db
    /\ UNCHANGED added
    /\ TaskUnchanged

\* Lines 97-100.
TaskAddFaceToFaceset(t) ==
    /\ tasks[t].pc = "add_face_to_faceset"
    /\ LET g == tasks[t].faceset_id[1]
       IN \E r \in OperationResults("add_face",
                      IF fpp[g] # Unknown
                      THEN {OkResponse(AddBody), OkResponse(MalformedBody("add"))}
                      ELSE {UnknownGalleryResponse}) :
            LET got == OperationReturn(r,
                    "Failed to add face: Invalid response format")
            IN /\ fpp' = IF r.kind = "return" /\ ~r.body.malformed
                         THEN [fpp EXCEPT ![g] = Some(fpp[g][1] + 1)]
                         ELSE fpp
               /\ added' = IF r.kind = "return" /\ ~r.body.malformed
                           THEN added \cup
                                {Accepted(TaskFace(t), TaskToken(t), g)}
                           ELSE added
               /\ IF got.kind = "raise"
                  THEN TaskFails(t)
                  ELSE tasks' = [tasks EXCEPT ![t].pc = "save_face_token"]
    /\ UNCHANGED <<db, created>>
    /\ TaskUnchanged

\* Lines 102-105.
TaskSaveFaceToken(t) ==
    /\ tasks[t].pc = "save_face_token"
    /\ \/ /\ db' = save_face_token(db, TaskToken(t), tasks[t].faceset_id[1])
          /\ tasks' = [tasks EXCEPT ![t].pc = "refresh_faceset_detail"]
       \/ /\ TaskFails(t)
          /\ UNCHANGED db
    /\ UNCHANGED <<fpp, created>>
    /\ UNCHANGED added
    /\ TaskUnchanged

\* Line 107.
TaskRefreshFacesetDetail(t) ==
    /\ tasks[t].pc = "refresh_faceset_detail"
    /\ \E r \in OperationResults("get_faceset_detail",
                   DetailResponses(tasks[t].faceset_id[1]) \ FaultResponses) :
         LET got == OperationReturn(r,
                 "Failed to get FaceSet details: Invalid response format")
         IN IF got.kind = "raise"
            THEN TaskFails(t)
            ELSE tasks' = [tasks EXCEPT
                     ![t].details = Some(got.body.face_count),
                     ![t].pc = "update_faceset_count"]
    /\ UNCHANGED worldVars
    /\ UNCHANGED added
    /\ TaskUnchanged

\* Lines 108-112; a count the store refuses to write is not noticed.
TaskUpdateFacesetCount(t) ==
    /\ tasks[t].pc = "update_faceset_count"
    /\ \/ /\ db' = update_faceset_count(db, tasks[t].faceset_id[1],
                                        tasks[t].details[1])
          /\ tasks' = [tasks EXCEPT ![t].pc = "done"]
       \/ /\ tasks' = [tasks EXCEPT ![t].pc = "done"]
          /\ UNCHANGED db
       \/ /\ TaskFails(t)
          /\ UNCHANGED db
    /\ UNCHANGED <<fpp, created>>
    /\ UNCHANGED added
    /\ TaskUnchanged

NextRegister ==
    \/ \E t \in Tasks : TaskFindAvailableFaceset(t)
    \/ \E t \in Tasks : TaskGetFacesetDetail(t)
    \/ \E t \in Tasks : TaskCreateNewFaceset(t)
    \/ \E t \in Tasks : TaskAddFaceToFaceset(t)
    \/ \E t \in Tasks : TaskSaveFaceToken(t)
    \/ \E t \in Tasks : TaskRefreshFacesetDetail(t)
    \/ \E t \in Tasks : TaskUpdateFacesetCount(t)

SpecRegister == InitRegister /\ [][NextRegister]_vars

\* ------------------------------------------------------------------------
\* Two concurrent verify_face calls with pictures of one person, from the
\* duplicate search on.  A call gives way to the other at each awaited
\* store or provider call.
\* ------------------------------------------------------------------------
Racers == {"task_a", "task_b"}

\* A call about to enter search_similar_faces.
SearchingTask ==
    [pc |-> "get_all_stored_faces", faceset_id |-> None, details |-> None,
     facesets |-> <<>>, idx |-> 0, matches |-> <<>>]

InitRace ==
    /\ pc = "race"
    /\ callNo = 0
    /\ InitRequestLocals
    /\ reqOp = "none"
    /\ reqResult = NoResult
    /\ responses = <<>>
    /\ opsDone = 0
    /\ \E w \in ConsistentWorlds : db = w.store /\ fpp = w.provider
    /\ created = 0
    /\ InitCallLocals
    /\ added = {}
    /\ InitNormalizerIdle
    /\ InitChatIdle
    /\ InitGate
    /\ gate = [c \in Callers |-> IdleCaller]
    /\ tasks = [t \in Tasks |->
                  IF t \in Racers THEN SearchingTask
                  ELSE [SearchingTask EXCEPT !.pc = "absent"]]

\* The provider's answer to call t's search of gallery g: it matches the
\* probe with every descriptor of the same person it accepted into g.
TaskSearchAnswer(t, g) ==
    LET same == {a \in added : /\ a.faceset_id = g
                               /\ a.face = TaskFace(t)
                               /\ a.face_token # TaskToken(t)}
    IN IF same = {} THEN {SearchBody(<<>>)}
       ELSE {SearchBody(<<SearchResult(Some(95), a.face_token)>>) : a \in same}

\* Lines 151-165 for call t: where it goes with the matches ms.
TaskAfterSearch(t, ms) ==
    LET next == AfterSearch(TaskToken(t), SortedByConfidence(ms))
    IN IF next.pc = "done" THEN "duplicate_found" ELSE next.pc

\* The loop of call t goes on at position i of its enumeration fs.
TaskContinueSearch(t, fs, i, ms) ==
    LET n == NextNonEmpty(fs, i)
    IN tasks' = [tasks EXCEPT
           ![t].facesets = fs,
           ![t].idx = n,
           ![t].matches = ms,
           ![t].pc = IF n <= Len(fs) THEN "search_faces"
                     ELSE TaskAfterSearch(t, ms)]

\* Line 50.
TaskGetAllStoredFaces(t) ==
    /\ tasks[t].pc = "get_all_stored_faces"
    /\ \/ TaskContinueSearch(t, get_all_stored_faces(db), 1, <<>>)
       \/ TaskFails(t)
    /\ UNCHANGED <<worldVars, added>>
    /\ TaskUnchanged

\* Lines 56-69: the search of one gallery.
TaskSearchFaces(t) ==
    /\ tasks[t].pc = "search_faces"
    /\ LET g == tasks[t].facesets[tasks[t].idx].id
       IN \E r \in OperationResults("search_faces",
                      {OkResponse(b) : b \in TaskSearchAnswer(t, g)}) :
            LET found == SearchFacesReturn(r)
                step == SearchOneFaceset(tasks[t].matches, found)
            IN TaskContinueSearch(t, tasks[t].facesets, tasks[t].idx + 1,
                                  step.matches)
    /\ UNCHANGED <<worldVars, added>>
    /\ TaskUnchanged

NextRace ==
    \/ \E t \in Tasks : TaskGetAllStoredFaces(t)
    \/ \E t \in Tasks : TaskSearchFaces(t)
    \/ NextRegister

SpecRace == InitRace /\ [][NextRace]_vars

\* ------------------------------------------------------------------------
\* resize_image_if_needed: the image handed to the Detect operation
\* ------------------------------------------------------------------------
\* The sides of the images handed in.
SideLengths == {1, 40, 47, 48, 600, 2048, 2049, 4096}

\* What the bytes handed in are: not an image at all (Image.open raises),
\* an image file cut short (the header parses, the first access to the
\* pixels raises), or an intact image.  within_budget tells whether the
\* bytes handed in are no longer than max_size_mb.
ImageInputs ==
    {[NotAnImage EXCEPT !.within_budget = b] : b \in BOOLEAN} \cup
    [kind : {"intact", "truncated"}, mode : {"RGB", "RGBA", "F"},
     width : SideLengths, height : SideLengths, within_budget : BOOLEAN]

\* A decoded image: img.mode and img.size.
Picture(mode, width, height) ==
    [mode |-> mode, width |-> width, height |-> height]

\* The bytes of a JPEG file written by img.save.
Encoded(p, q) ==
    [kind |-> "jpeg", mode |-> p.mode, width |-> p.width, height |-> p.height,
     quality |-> q]

Min(a, b) == IF a <= b THEN a ELSE b
Max(a, b) == IF a >= b THEN a ELSE b

RECURSIVE Pow2(_)
Pow2(k) == IF k = 0 THEN 1 ELSE 2 * Pow2(k - 1)

RECURSIVE Log2Floor(_)
Log2Floor(n) == IF n < 2 THEN 0 ELSE 1 + Log2Floor(n \div 2)

\* 2^s modulo m, thirteen binary digits of the exponent at a time.
RECURSIVE Pow2Mod(_, _)
Pow2Mod(s, m) ==
    IF s <= 13 THEN Pow2(s) % m
    ELSE ((Pow2(13) % m) * Pow2Mod(s - 13, m)) % m

\* Image.thumbnail((max_dimension, max_dimension)): the longer side becomes
\* max_dimension, the other one the neighbour of its exact value (at
\* least 1) that keeps the aspect ratio best.
ThumbnailSize(width, height) ==
    IF width <= max_dimension /\ height <= max_dimension
    THEN <<width, height>>
    ELSE IF width <= height
    THEN LET v == max_dimension * width
             down == v \div height
             rest == v % height
             x == IF rest <= height - rest THEN down ELSE down + 1
         IN <<Max(x, 1), max_dimension>>
    ELSE LET v == max_dimension * height
             down == v \div width
             rest == v % width
             y == IF rest = 0 THEN down
                  ELSE IF down = 0 THEN 0
                  ELSE IF rest * (down + 1) <= (width - rest) * down
                  THEN down ELSE down + 1
         IN <<max_dimension, Max(y, 1)>>

\* int(x * (min_dimension / m)) in double precision, for 1 <= m <
\* min_dimension.  The quotient is rounded to 53 bits; rho tells by how
\* much (in units of 1 / (m * 2^s)) it falls short of the exact value.
\* When min_dimension * x / m is a whole number n and the quotient fell
\* short, the product is rounded to the double below n as soon as the
\* shortfall exceeds half the spacing of the doubles there, and int()
\* then gives n - 1.
IntScaled(x, m) ==
    LET a == Log2Floor(min_dimension \div m)
        s == 52 - a
        t == ((min_dimension % m) * Pow2Mod(s, m)) % m
        rho == IF t = 0 THEN 0 ELSE IF 2 * t < m THEN t ELSE t - m
        n == (min_dimension * x) \div m
        k == Log2Floor(n)
        below == IF n = Pow2(k) THEN k - 1 ELSE k
    IN IF (min_dimension * x) % m # 0 THEN n
       ELSE IF rho <= 0 THEN n
       ELSE IF 2 * x * rho > m * Pow2(below - a) THEN n - 1
       ELSE n

\* Lines 81-87: the size after the upscale of an image whose shorter side
\* is below min_dimension.
UpscaledSize(width, height) ==
    LET m == Min(width, height)
    IN <<IntScaled(width, m), IntScaled(height, m)>>

\* Lines 113-114: int(width * scale) for scale = tenths / 10 as the loop
\* computes it (0.8, then 0.1 subtracted each round); the truncation
\* agrees with the exact quotient for every width up to 120000.
ShrunkSize(width, height, tenths) ==
    <<(width * tenths) \div 10, (height * tenths) \div 10>>

\* Faulty variant: the dimension loop has no lower end for the scale.
ScaleInLoopForever(tenths) == TRUE

\* Line 112: "while scale > 0.3".  After five subtractions of 0.1 the
\* double is 0.30000000000000016, so the round for three tenths runs.
ScaleInLoop(tenths) == tenths >= ScaleFloor

\* Lines 99-101: the encoded size against max_size_mb.
Measured(fits) == IF fits THEN "within" ELSE "over"

\* Faulty variant: the exception leaves resize_image_if_needed.
ResizeExceptReraise(data) == [output |-> None, escaped |-> TRUE]

\* Lines 142-144: any exception ends the call with the bytes handed in.
ResizeExcept(data) == [output |-> Some(data), escaped |-> FALSE]

InitNormalize ==
    /\ pc = "open"
    /\ callNo = 0
    /\ InitRequestLocals
    /\ reqOp = "none"
    /\ reqResult = NoResult
    /\ responses = <<>>
    /\ opsDone = 0
    /\ db = <<>>
    /\ fpp = NoGalleries
    /\ created = 0
    /\ InitCallLocals
    /\ added = {}
    /\ InitGate
    /\ InitThreads
    /\ InitChatIdle
    /\ image_data \in ImageInputs
    /\ img = None
    /\ quality = 0
    /\ scale = 0
    /\ output = None
    /\ raisedAt = "none"
    /\ encodes = 0
    /\ size_mb = NotMeasured

NormalizeUnchanged ==
    UNCHANGED <<callNo, requestVars, harnessVars, gateVars, threadVars,
                worldVars, searchVars, saveVars, face_token, detectAnswer,
                outcome, calls, historyVars, image_data, chatVars>>

\* An exception raised by the named step.
ResizeRaises(step) ==
    LET h == ResizeExcept(image_data)
    IN /\ output' = h.output
       /\ escaped' = h.escaped
       /\ raisedAt' = step
       /\ pc' = "normalized"
       /\ UNCHANGED <<img, quality, scale, encodes, size_mb>>

\* The pixels cannot be read.
Unreadable == image_data.kind = "truncated"

\* img.save(format='JPEG') raises for a mode without JPEG encoder and for
\* a side beyond the encoder's limit.
CanEncode(p) == p.mode # "F" /\ Max(p.width, p.height) <= JpegMaxSide

\* Line 60.
OpenImage ==
    /\ pc = "open"
    /\ IF image_data.kind = "not_an_image"
       THEN ResizeRaises("open")
       ELSE /\ img' = Some(Picture(image_data.mode, image_data.width,
                                   image_data.height))
            /\ pc' = "convert"
            /\ UNCHANGED <<quality, scale, output, raisedAt, encodes, size_mb,
                           escaped>>
    /\ NormalizeUnchanged

\* Lines 63-64.
ConvertToRGB ==
    /\ pc = "convert"
    /\ IF img[1].mode \in {"RGBA", "LA", "P"}
       THEN IF Unreadable
            THEN ResizeRaises("convert")
            ELSE /\ img' = Some([img[1] EXCEPT !.mode = "RGB"])
                 /\ pc' = "check_large"
                 /\ UNCHANGED <<quality, scale, output, raisedAt, encodes,
                                size_mb, escaped>>
       ELSE /\ pc' = "check_large"
            /\ UNCHANGED <<img, quality, scale, output, raisedAt, encodes,
                           size_mb, escaped>>
    /\ NormalizeUnchanged

\* Lines 74-77.
ThumbnailIfLarge ==
    /\ pc = "check_large"
    /\ IF img[1].width > max_dimension \/ img[1].height > max_dimension
       THEN IF Unreadable
            THEN ResizeRaises("thumbnail")
            ELSE LET size == ThumbnailSize(img[1].width, img[1].height)
                 IN /\ img' = Some(Picture(img[1].mode, size[1], size[2]))
                    /\ pc' = "check_small"
                    /\ UNCHANGED <<quality, scale, output, raisedAt, encodes,
                                   size_mb, escaped>>
       ELSE /\ pc' = "check_small"
            /\ UNCHANGED <<img, quality, scale, output, raisedAt, encodes,
                           size_mb, escaped>>
    /\ NormalizeUnchanged

\* Lines 81-91.
UpscaleIfSmall ==
    /\ pc = "check_small"
    /\ IF Min(img[1].width, img[1].height) < min_dimension
       THEN IF Unreadable
            THEN ResizeRaises("resize")
            ELSE LET size == UpscaledSize(img[1].width, img[1].height)
                 IN /\ img' = Some(Picture(img[1].mode, size[1], size[2]))
                    /\ pc' = "quality_loop"
                    /\ quality' = FirstQuality
                    /\ UNCHANGED <<scale, output, raisedAt, encodes, size_mb,
                                   escaped>>
       ELSE /\ pc' = "quality_loop"
            /\ quality' = FirstQuality
            /\ UNCHANGED <<img, scale, output, raisedAt, encodes, size_mb,
                           escaped>>
    /\ NormalizeUnchanged

\* Lines 95-106: one round of the quality loop; fits tells whether the
\* encoded size is within max_size_mb.
SaveAtQuality ==
    /\ pc = "quality_loop"
    /\ IF Unreadable \/ ~CanEncode(img[1])
       THEN ResizeRaises("save")
       ELSE \E fits \in BOOLEAN :
              /\ encodes' = encodes + 1
              /\ size_mb' = Measured(fits)
              /\ IF fits
                 THEN /\ output' = Some(Encoded(img[1], quality))
                      /\ pc' = "normalized"
                      /\ UNCHANGED <<quality, scale>>
                 ELSE /\ quality' = quality - QualityStep
                      /\ IF quality' > QualityFloor
                         THEN /\ pc' = "quality_loop"
                              /\ UNCHANGED scale
                         ELSE /\ pc' = "shrink_loop"
                              /\ scale' = FirstScale
                      /\ UNCHANGED output
              /\ UNCHANGED <<img, raisedAt, escaped>>
    /\ NormalizeUnchanged

\* Lines 112-131: one round of the dimension loop, or its end.
ShrinkAndSave ==
    /\ pc = "shrink_loop"
    /\ LET size == ShrunkSize(img[1].width, img[1].height, scale)
       IN IF ~ScaleInLoop(scale) \/ Min(size[1], size[2]) < min_dimension
          THEN /\ pc' = "last_resort"
               /\ UNCHANGED <<scale, output, encodes, size_mb>>
          ELSE \E fits \in BOOLEAN :
                 /\ encodes' = encodes + 1
                 /\ size_mb' = Measured(fits)
                 /\ IF fits
                    THEN /\ output' = Some(Encoded(
                                Picture(img[1].mode, size[1], size[2]),
                                ShrinkQuality))
                         /\ pc' = "normalized"
                         /\ UNCHANGED scale
                    ELSE /\ scale' = scale - 1
                         /\ pc' = "shrink_loop"
                         /\ UNCHANGED output
    /\ UNCHANGED <<img, quality, raisedAt, escaped>>
    /\ NormalizeUnchanged

\* Lines 134-140: the size is measured for the log line only.
LastResort ==
    /\ pc = "last_resort"
    /\ encodes' = encodes + 1
    /\ \E fits \in BOOLEAN : size_mb' = Measured(fits)
    /\ output' = Some(Encoded(img[1], LastResortQuality))
    /\ pc' = "normalized"
    /\ UNCHANGED <<img, quality, scale, raisedAt, escaped>>
    /\ NormalizeUnchanged

NextNormalize ==
    \/ OpenImage
    \/ ConvertToRGB
    \/ ThumbnailIfLarge
    \/ UpscaleIfSmall
    \/ SaveAtQuality
    \/ ShrinkAndSave
    \/ LastResort

SpecNormalize == InitNormalize /\ [][NextNormalize]_vars

\* The function is one thread of straight-line code: the statement it
\* stands at is executed.
SpecNormalizeFair == SpecNormalize /\ WF_vars(NextNormalize)

\* ------------------------------------------------------------------------
\* The chatbot's vector store (vectorstore.py) and the chat handler that
\* reads it (chat_router.py), interleaved statement by statement: the
\* loader is a thread of its own.
\* ------------------------------------------------------------------------
\* str(e) of the exception that ended the load; the text may be empty.
LoadMessages == {"No documents found in knowledge base directory", ""}

\* Lines 74-114: create_vectorstore returns the new store or raises.
CreateResults ==
    {Got("return", Some("created_index"))}
        \cup {Got("raise", Some(m)) : m \in LoadMessages}

\* Lines 30-44: an index that is on disk and loads is returned; without
\* one, or when loading it raises, the store is created anew.
load_vectorstore_sync(index_present, load_local, create) ==
    IF index_present /\ load_local = "ok"
    THEN Got("return", Some("loaded_index"))
    ELSE create

\* Python's truth value of load_error: None and the empty text are false.
Truthy(load_error) == load_error # None /\ load_error[1] # ""

\* Line 68, left operand: "not vector_state.is_loading".
NotLoading(vs) == ~vs.is_loading

\* Faulty variant: readiness does not look at load_error.
NoLoadErrorUnchecked(vs) == TRUE

\* Line 68, right operand: "vector_state.load_error is None".
NoLoadError(vs) == vs.load_error = None

\* Line 71: the thread is started when the module is imported, before
\* any request is served.
InitChat ==
    /\ pc = "idle"
    /\ callNo = 0
    /\ InitRequestLocals
    /\ reqOp = "none"
    /\ reqResult = NoResult
    /\ responses = <<>>
    /\ opsDone = 0
    /\ db = <<>>
    /\ fpp = NoGalleries
    /\ created = 0
    /\ InitCallLocals
    /\ added = {}
    /\ InitNormalizerIdle
    /\ InitGate
    /\ InitThreads
    /\ vector_state = VectorStoreState
    /\ loader = [pc |-> "load_vectorstore_sync", error |-> None]
    /\ handlers = [h \in Handlers |-> IdleHandler]

ChatUnchanged ==
    UNCHANGED <<pc, callVars, requestVars, harnessVars, gateVars, threadVars,
                worldVars, searchVars, saveVars, outcome, escaped, calls,
                historyVars, imageVars>>

\* Lines 48-50 and 53-54: the load returns and the store is assigned, or
\* it raises and the except clause is entered.
LoadVectorstore ==
    /\ loader.pc = "load_vectorstore_sync"
    /\ \E index_present \in BOOLEAN, load_local \in {"ok", "raises"},
          create \in CreateResults :
            LET r == load_vectorstore_sync(index_present, load_local, create)
            IN IF r.kind = "return"
               THEN /\ vector_state' =
                           [vector_state EXCEPT !.vectorstore = r.value]
                    /\ loader' = [loader EXCEPT !.pc = "loaded"]
               ELSE /\ loader' = [pc |-> "except", error |-> r.value]
                    /\ UNCHANGED vector_state
    /\ UNCHANGED handlers
    /\ ChatUnchanged

\* Line 55: vector_state.load_error = str(e).
SetLoadError ==
    /\ loader.pc = "except"
    /\ vector_state' = [vector_state EXCEPT !.load_error = loader.error]
    /\ loader' = [loader EXCEPT !.pc = "failed"]
    /\ UNCHANGED handlers
    /\ ChatUnchanged

\* Lines 51 and 56: vector_state.is_loading = False, the last statement
\* of either path.
ClearIsLoading ==
    /\ loader.pc \in {"loaded", "failed"}
    /\ vector_state' = [vector_state EXCEPT !.is_loading = FALSE]
    /\ loader' = [loader EXCEPT !.pc = "finished"]
    /\ UNCHANGED handlers
    /\ ChatUnchanged

HandlerUnchanged ==
    /\ UNCHANGED <<vector_state, loader>>
    /\ ChatUnchanged

\* chat_router.py lines 65-67: a request classified as system_info asks
\* whether the store is ready.
Chat(h) ==
    /\ handlers[h].pc \in {"idle", "answered"}
    /\ handlers' = [handlers EXCEPT ![h] =
                        [IdleHandler EXCEPT !.pc = "is_vectorstore_ready"]]
    /\ HandlerUnchanged

\* chat_router.py lines 68-71: the answer while the store is not ready.
StillLoading(hd) ==
    [hd EXCEPT !.pc = "answered", !.ready = Some(FALSE),
               !.answer = "still_loading"]

\* is_vectorstore_ready reads is_loading; "and" stops at a false operand.
ReadyIsLoading(h) ==
    /\ handlers[h].pc = "is_vectorstore_ready"
    /\ handlers' = [handlers EXCEPT ![h] =
                        IF NotLoading(vector_state)
                        THEN [@ EXCEPT !.pc = "ready_load_error"]
                        ELSE StillLoading(@)]
    /\ HandlerUnchanged

\* is_vectorstore_ready reads load_error and returns.
ReadyLoadError(h) ==
    /\ handlers[h].pc = "ready_load_error"
    /\ handlers' = [handlers EXCEPT ![h] =
                        IF NoLoadError(vector_state)
                        THEN [@ EXCEPT !.pc = "get_vectorstore",
                                       !.ready = Some(TRUE)]
                        ELSE StillLoading(@)]
    /\ HandlerUnchanged

\* chains.py lines 36-38 and chat_router.py lines 76-80: without a store
\* get_rag_chain returns None and the handler asks to try again.
NoChain(hd) ==
    [hd EXCEPT !.pc = "answered", !.got = Got("return", None),
               !.answer = "loading_shortly"]

\* Lines 60-61 of get_vectorstore, called by get_rag_chain.
GetIsLoading(h) ==
    /\ handlers[h].pc = "get_vectorstore"
    /\ handlers' = [handlers EXCEPT ![h] =
                        IF vector_state.is_loading
                        THEN NoChain(@)
                        ELSE [@ EXCEPT !.pc = "get_load_error"]]
    /\ HandlerUnchanged

\* Lines 62-63: a load error raises; chat_router.py lines 87-89 answer
\* with the apology.
GetLoadError(h) ==
    /\ handlers[h].pc = "get_load_error"
    /\ handlers' = [handlers EXCEPT ![h] =
                        IF Truthy(vector_state.load_error)
                        THEN [@ EXCEPT !.pc = "answered",
                                       !.got = Got("raise",
                                                   vector_state.load_error),
                                       !.answer = "rag_error"]
                        ELSE [@ EXCEPT !.pc = "get_return"]]
    /\ HandlerUnchanged

\* Line 64: return vector_state.vectorstore; with a store the chain is
\* built and invoked, which answers or raises.
GetReturn(h) ==
    /\ handlers[h].pc = "get_return"
    /\ \E invoked \in {"rag_answer", "rag_error"} :
         handlers' = [handlers EXCEPT ![h] =
                        IF vector_state.vectorstore = None
                        THEN NoChain(@)
                        ELSE [@ EXCEPT !.pc = "answered",
                                       !.got = Got("return",
                                                   vector_state.vectorstore),
                                       !.answer = invoked]]
    /\ HandlerUnchanged

LoaderStep ==
    \/ LoadVectorstore
    \/ SetLoadError
    \/ ClearIsLoading

NextChat ==
    \/ LoadVectorstore
    \/ SetLoadError
    \/ ClearIsLoading
    \/ \E h \in Handlers : Chat(h)
    \/ \E h \in Handlers : ReadyIsLoading(h)
    \/ \E h \in Handlers : ReadyLoadError(h)
    \/ \E h \in Handlers : GetIsLoading(h)
    \/ \E h \in Handlers : GetLoadError(h)
    \/ \E h \in Handlers : GetReturn(h)

SpecChat == InitChat /\ [][NextChat]_vars

\* The loader thread is scheduled and its load returns or raises.
SpecChatFair == SpecChat /\ WF_vars(LoaderStep)

\* ========================================================================
\* Properties
\* ========================================================================
\* The variants of VerificationOutcome, read off the returned dict.
IsNoFaceDetected(o) ==
    o.status = "error" /\ o.message = <<"No face detected in image">>

IsInvalidFace(o) ==
    /\ o.status = "error"
    /\ o.message \in {<<"No face attributes detected">>,
                      <<"Unable to detect human face characteristics">>}

IsDuplicateFound(o) == o.status = "duplicate_found"

IsRegistered(o) == o.status = "success"

IsFailed(o) == o.status = "error" /\ ~IsNoFaceDetected(o) /\ ~IsInvalidFace(o)

\* The failure came out of search_similar_faces.
IsSearchFailure(o) ==
    /\ IsFailed(o)
    /\ Len(o.message) >= 2
    /\ o.message[2] = "Error during face search"

\* The failure names the detect operation.
NamesDetect(o) ==
    \E i \in 1..Len(o.message) : o.message[i] = "detect_face"

Returned == pc = "done" /\ outcome # None

LastCall == IF calls = <<>> THEN "none" ELSE calls[Len(calls)]

CallsMade == {calls[i] : i \in 1..Len(calls)}

RegistrationCalls ==
    {"find_available_faceset", "get_faceset_detail", "create_faceset",
     "add_face", "save_face_token", "update_faceset_count"}

\* Number of positions of sequence q whose element satisfies Test.
CountWhere(q, Test(_)) == Cardinality({i \in 1..Len(q) : Test(q[i])})

\* C1: whatever fails at whatever step, verify_face hands its caller a
\* structured outcome and no exception leaves the call.
C1_AlwaysStructuredOutcome ==
    /\ ~escaped
    /\ pc = "done" =>
          /\ outcome # None
          /\ outcome[1].status \in {"error", "duplicate_found", "success"}
          /\ outcome[1].status = "error" =>
                /\ outcome[1].face_token = None
                /\ ~outcome[1].is_duplicate

\* A call that failed at the very last step, the count refresh.
C1_Witness ==
    /\ Returned
    /\ IsFailed(outcome[1])
    /\ LastCall = "update_faceset_count"
    /\ "create_faceset" \in CallsMade

\* C2: once the duplicate search has yielded a match, the call returns
\* DuplicateFound and makes no gallery-detail, create-gallery or
\* add-to-gallery call and no write to the store.
C2_DuplicateStopsRegistration ==
    (ranked.done /\ ranked.list # <<>>) =>
        /\ pc \in {"search_returned", "done"}
        /\ pc = "done" => outcome # None /\ IsDuplicateFound(outcome[1])
        /\ CallsMade \cap RegistrationCalls = {}

\* The probe matched a stored descriptor at confidence 95.
C2_Witness ==
    /\ Returned
    /\ IsDuplicateFound(outcome[1])
    /\ outcome[1].confidence = Some(95)
    /\ db # <<>>

\* C3: a Detect answer with zero faces ends the call with NoFaceDetected
\* after the detect operation alone.
C3_NoFaceNoFurtherCalls ==
    detectAnswer = "zero_faces" =>
        /\ pc = "done"
        /\ outcome # None
        /\ IsNoFaceDetected(outcome[1])
        /\ calls = <<"detect_face">>

C3_Witness ==
    /\ detectAnswer = "zero_faces"
    /\ Returned
    /\ db # <<>>

\* C4: a detected face whose attributes hold none of gender, age and
\* ethnicity ends the call with InvalidFace after the detect operation
\* alone.
C4_InvalidFaceNoSearch ==
    detectAnswer \in {"face_empty_attributes", "face_quality_only"} =>
        /\ pc = "done"
        /\ outcome # None
        /\ IsInvalidFace(outcome[1])
        /\ calls = <<"detect_face">>

C4_Witness ==
    /\ detectAnswer = "face_quality_only"
    /\ Returned
    /\ db # <<>>

\* C5: when search_similar_faces returns, its list holds exactly the
\* results of the successfully searched galleries whose confidence is at
\* least the threshold: each of them as often as the provider gave it,
\* and nothing else.
C5_ExactlyThresholdAndAbove ==
    pc = "search_returned" =>
        /\ \A i \in 1..Len(ranked.list) :
              ranked.list[i].confidence >= confidence_threshold
        /\ \A c \in confidence_threshold..100 : \A t \in 1..2 :
              LET Given(r) == r.confidence = Some(c) /\ r.face_token = t
                  Kept(m) == m.confidence = c /\ m.face_token = t
              IN CountWhere(provided, Given) = CountWhere(ranked.list, Kept)

\* A result at exactly the threshold is returned, one just below is not.
C5_Witness ==
    /\ pc = "search_returned"
    /\ \E i \in 1..Len(provided) : provided[i].confidence = Some(89)
    /\ \E i \in 1..Len(provided) : provided[i].confidence = None
    /\ \E i \in 1..Len(ranked.list) : ranked.list[i].confidence = 90

\* C6: the returned list is in non-increasing confidence order, and the
\* matches of one confidence stand in the order the provider gave them,
\* gallery after gallery.
C6_SortedAndStable ==
    pc = "search_returned" =>
        /\ \A i \in 1..Len(ranked.list) - 1 :
              ranked.list[i].confidence >= ranked.list[i + 1].confidence
        /\ \A c \in confidence_threshold..100 :
              LET Given(r) == r.confidence = Some(c)
                  Kept(m) == m.confidence = c
                  given == SelectSeq(provided, Given)
                  kept == SelectSeq(ranked.list, Kept)
              IN /\ Len(given) = Len(kept)
                 /\ \A i \in 1..Len(kept) :
                       kept[i].face_token = given[i].face_token

\* A tie between two descriptors, collected before a stronger match.
C6_Witness ==
    /\ pc = "search_returned"
    /\ Len(matches) = 3
    /\ matches[1].confidence = 90 /\ matches[1].face_token = 2
    /\ matches[2].confidence = 90 /\ matches[2].face_token = 1
    /\ matches[3].confidence = 95
    /\ ranked.list = <<matches[3], matches[1], matches[2]>>

\* C7: a DuplicateFound outcome reports the highest confidence among the
\* matches gathered and carries the whole ranked list.
C7_BestMatchAndFullList ==
    (Returned /\ IsDuplicateFound(outcome[1])) =>
        /\ outcome[1].confidence # None
        /\ \A i \in 1..Len(matches) :
              matches[i].confidence <= outcome[1].confidence[1]
        /\ \E i \in 1..Len(matches) :
              matches[i].confidence = outcome[1].confidence[1]
        /\ outcome[1].matches = Some(ranked.list)
        /\ Len(ranked.list) = Len(matches)
        /\ \A i \in 1..Len(matches) :
              LET Same(m) == m = matches[i]
              IN CountWhere(ranked.list, Same) = CountWhere(matches, Same)

\* The weaker match was collected first.
C7_Witness ==
    /\ Returned
    /\ IsDuplicateFound(outcome[1])
    /\ Len(matches) >= 2
    /\ matches[1].confidence = 90
    /\ matches[Len(matches)].confidence = 95

\* C8: a gallery whose search fails is skipped: every gallery with
\* recorded descriptors is still searched, the matches of the galleries
\* that answered are returned, and the call does not fail on account of
\* the search.
C8_FailedGallerySkipped ==
    /\ pc \in {"search_faces", "search_returned"} =>
          searchedOk \cup searchFailed =
              {facesets[i].id : i \in {j \in 1..(idx - 1) : facesets[j].tokens # <<>>}}
    /\ pc = "search_returned" =>
          /\ idx = Len(facesets) + 1
          /\ LET Given(r) == r.confidence # None
                             /\ r.confidence[1] >= confidence_threshold
             IN Len(ranked.list) = CountWhere(provided, Given)
    /\ (searchFailed # {} /\ Returned) => ~IsSearchFailure(outcome[1])

\* The first gallery failed, the second was searched and gave a match.
C8_Witness ==
    /\ pc = "search_returned"
    /\ Len(facesets) = 2
    /\ facesets[1].id \in searchFailed
    /\ facesets[2].id \in searchedOk
    /\ ranked.list # <<>>

\* C9: a Detect operation that failed is reported as a failure naming the
\* detect operation, and NoFaceDetected is returned only for a Detect
\* answer with zero faces.
C9_DetectFailureSurfaced ==
    Returned =>
        /\ IsNoFaceDetected(outcome[1]) => detectAnswer = "zero_faces"
        /\ detectAnswer = "raised" =>
              IsFailed(outcome[1]) /\ NamesDetect(outcome[1])

\* C10: one _make_request call sends at most three HTTP requests,
\* whatever the provider answers.
C10_AtMostMaxRetriesRequests ==
    /\ sent <= 3
    /\ Len(responses) = sent

\* Rate limit, then an unparseable body, then a transport failure.
C10_Witness ==
    /\ pc = "request_done"
    /\ sent = 3
    /\ reqResult.kind = "raise"
    /\ IsRateLimitError(responses[1])
    /\ responses[2].kind = "not_json"
    /\ responses[3].kind = "transport_error"

\* ------------------------------------------------------------------------
\* _make_request: what the provider answered and what the caller got
\* ------------------------------------------------------------------------
Contains(q, x) == \E i \in 1..Len(q) : q[i] = x

\* A parseable answer that reports a failure other than the rate limit.
IsProviderRejection(resp) ==
    /\ resp.kind = "json"
    /\ ~IsRateLimitError(resp)
    /\ resp.error_message # None \/ resp.status_code # 200

\* A parseable answer with status 200 and no error_message.
IsSuccess(resp) ==
    /\ resp.kind = "json"
    /\ resp.status_code = 200
    /\ resp.error_message = None

IsRetryable(resp) ==
    \/ resp.kind \in {"transport_error", "not_json"}
    \/ resp.kind = "json" /\ IsRateLimitError(resp)

\* The rejection answered request i: it was the last request and the
\* operation ended with an HTTPException that carries the message.
RejectionEndsOperation(i) ==
    /\ i = Len(responses)
    /\ pc = "request_done"
    /\ reqResult.kind = "raise"
    /\ responses[i].error_message # None =>
          Contains(reqResult.exc.detail, responses[i].error_message[1])

\* C11 as stated: a provider-reported error other than the rate limit is
\* not retried and the failure raised carries the provider's status code
\* and message.
C11_RejectionCarriesProviderStatus ==
    \A i \in 1..Len(responses) :
        IsProviderRejection(responses[i]) =>
            /\ RejectionEndsOperation(i)
            /\ reqResult.exc.status_code = responses[i].status_code

\* C12: a rate-limit answer to attempt k < max_retries is followed by a
\* wait of retry_delay * k (2 after attempt 1, 4 after attempt 2) before
\* attempt k + 1, and no wait follows the final attempt.
C12_LinearBackoff ==
    /\ \A i \in 1..Len(responses) :
          (responses[i].kind = "json" /\ IsRateLimitError(responses[i])
           /\ i < max_retries) =>
              /\ Len(waits) >= i
              /\ waits[i] = retry_delay * i
              /\ waits[i] >= retry_delay
              /\ i = 1 => waits[i] = 2
              /\ i = 2 => waits[i] = 4
              /\ Len(passes) > i =>
                    passes[i + 1] - passes[i] >= retry_delay * i
    /\ Len(waits) <= max_retries - 1
    /\ Len(waits) = IF pc = "request_done" THEN sent - 1 ELSE sent

\* Two rate-limit answers, then the third attempt ended the operation.
C12_Witness ==
    /\ pc = "request_done"
    /\ sent = 3
    /\ IsRateLimitError(responses[1])
    /\ IsRateLimitError(responses[2])
    /\ waits = <<2, 4>>

\* C13: when the attempts before attempt k met retryable conditions and
\* attempt k succeeds, _make_request returns the body of attempt k and
\* raises nothing.
C13_SuccessAfterRetries ==
    (pc = "request_done" /\ IsSuccess(responses[Len(responses)])) =>
        /\ \A i \in 1..(Len(responses) - 1) : IsRetryable(responses[i])
        /\ reqResult.kind = "return"
        /\ reqResult.body = responses[Len(responses)].body

\* Success on the third attempt, after a rate limit and a lost request.
C13_Witness ==
    /\ pc = "request_done"
    /\ sent = 3
    /\ IsRateLimitError(responses[1])
    /\ responses[2].kind = "transport_error"
    /\ IsSuccess(responses[3])
    /\ reqResult.kind = "return"
    /\ reqResult.body # NoBody

\* C14: when every attempt receives the rate-limit error, the operation
\* fails as provider-unavailable (503), like exhausted transport failures.
C14_ExhaustedRateLimitUnavailable ==
    (/\ pc = "request_done"
     /\ sent = max_retries
     /\ \A i \in 1..Len(responses) :
           responses[i].kind = "json" /\ IsRateLimitError(responses[i])) =>
        /\ reqResult.kind = "raise"
        /\ reqResult.exc.status_code = 503

\* C15: a transport failure on attempt k < max_retries is followed by a
\* wait of retry_delay and another attempt; when every attempt fails at
\* the transport level the operation raises 503 naming the operation.
C15_TransportRetriedThenUnavailable ==
    /\ \A i \in 1..Len(responses) :
          (responses[i].kind = "transport_error" /\ i < max_retries) =>
              /\ Len(waits) >= i
              /\ waits[i] = retry_delay
              /\ pc # "request_done" \/ sent > i
    /\ (/\ pc = "request_done"
        /\ \A i \in 1..Len(responses) : responses[i].kind = "transport_error") =>
          /\ sent = max_retries
          /\ reqResult.kind = "raise"
          /\ reqResult.exc.status_code = 503
          /\ Contains(reqResult.exc.detail, reqOp)

\* Three requests lost in a row.
C15_Witness ==
    /\ pc = "request_done"
    /\ sent = 3
    /\ \A i \in 1..3 : responses[i].kind = "transport_error"
    /\ waits = <<2, 2>>
    /\ reqResult.exc.status_code = 503

\* C16: requests issued one after another through one client each pass
\* the gate before they are sent, and the gate-pass times of consecutive
\* requests, retries included, are at least retry_delay apart.
C16_GateSpacesRequests ==
    /\ Len(passes) = IF pc = "post" THEN sent + 1 ELSE sent
    /\ \A i \in 1..(Len(passes) - 1) : passes[i + 1] - passes[i] >= retry_delay
    /\ passes # <<>> => passes[Len(passes)] = last_request_time
    /\ prevPass # None => last_request_time - prevPass[1] >= retry_delay

\* The second operation came right after the first and was held back.
C16_Witness ==
    /\ opsDone = 1
    /\ pc = "post"
    /\ passes = <<StartTime + retry_delay>>
    /\ prevPass = Some(StartTime)
    /\ now = StartTime + retry_delay

\* C17: whatever the interleaving of concurrent callers, no two of them
\* pass the gate less than retry_delay apart.
C17_CallersSerialized ==
    \A c1, c2 \in Callers :
        (c1 # c2 /\ gate[c1].passedAt # None /\ gate[c2].passedAt # None) =>
            \/ gate[c1].passedAt[1] - gate[c2].passedAt[1] >= retry_delay
            \/ gate[c2].passedAt[1] - gate[c1].passedAt[1] >= retry_delay

\* C18: when the re-validation of the gallery offered by the store is
\* answered with "no such gallery", the candidate is dropped and the
\* registration goes on by creating a new gallery.
C18_StaleCandidateReplaced ==
    detailAnswer = "unknown_gallery" =>
        /\ ~(Returned /\ LastCall = "get_faceset_detail")
        /\ pc = "create_new_faceset" \/ "create_faceset" \in CallsMade

\* C19: the gallery the registration is about to add to is never one whose
\* re-validated face_count has reached the capacity limit.
C19_NoFullGalleryChosen ==
    (pc = "add_face_to_faceset" /\ detailAnswer = "known") =>
        details[1] < CapacityLimit

\* C20: however the registration steps of concurrent calls interleave, no
\* gallery comes to hold more than CapacityLimit + 1 faces.
C20_OvercommitAtMostOne ==
    \A g \in GalleryUniverse :
        fpp[g] # Unknown => fpp[g][1] <= CapacityLimit + 1


\* ------------------------------------------------------------------------
\* Registration: what reaches the provider and the store
\* ------------------------------------------------------------------------
\* The galleries create_new_faceset has made in this run.
CreatedGalleries == {NewOuterId(n) : n \in 1..created}

StoredTokens(store) ==
    UNION {{store[i].tokens[j] : j \in 1..Len(store[i].tokens)} :
              i \in 1..Len(store)}

\* C21: a gallery made by create_new_faceset has a record in the store
\* only once the provider accepted a face into it; when the creation or
\* the first add fails no record of that gallery is written.
C21_NewGalleryRecordedAfterAdd ==
    \A g \in CreatedGalleries :
        g \in StoredIds(db) => fpp[g] # Unknown /\ fpp[g][1] >= 1

\* The provider made the gallery, the first add into it failed and the
\* call ended: the store has no record of the gallery.
C21_Witness ==
    /\ Returned
    /\ IsFailed(outcome[1])
    /\ LastCall = "add_face"
    /\ "create_faceset" \in CallsMade
    /\ faceset_id # None
    /\ faceset_id[1] \in CreatedGalleries
    /\ fpp[faceset_id[1]] = Some(0)
    /\ faceset_id[1] \notin StoredIds(db)


\* ------------------------------------------------------------------------
\* Registration failures: what the returned outcome tells the caller
\* ------------------------------------------------------------------------
\* What verify_face returns when save_face_data fails with exception e
\* (lines 114-117 and 184-193).
SaveFailureOutcome(e) == ErrorResponse(StrOf(SaveError(StrOf(e))))

\* The exceptions a provider operation of save_face_data can raise.
ProviderFailures(operation, oks, complaint) ==
    {OperationReturn(r, complaint).exc :
        r \in {x \in OperationResults(operation, oks) :
                  OperationReturn(x, complaint).kind = "raise"}}

DetailFailures ==
    ProviderFailures("get_faceset_detail",
        {OkResponse(DetailBody(1)), OkResponse(MalformedBody("detail")),
         UnknownGalleryResponse},
        "Failed to get FaceSet details: Invalid response format")

\* The outcomes with which a registration can fail at each sub-step, as
\* far as save_face_data and the provider client fix their text.
FailureOutcomes(step) ==
    CASE step = "revalidation" ->
            {SaveFailureOutcome(e) : e \in DetailFailures}
      [] step = "create" ->
            {SaveFailureOutcome(e) : e \in
                ProviderFailures("create_faceset",
                    {OkResponse(CreateBody), OkResponse(MalformedBody("create"))},
                    "Failed to create FaceSet: Invalid response format")}
      [] step = "add" ->
            {SaveFailureOutcome(e) : e \in
                ProviderFailures("add_face",
                    {OkResponse(AddBody), OkResponse(MalformedBody("add")),
                     UnknownGalleryResponse},
                    "Failed to add face: Invalid response format")}
      [] step = "persistence" ->
            {SaveFailureOutcome(
                HTTPException(500, <<"Failed to save face token to database">>))}
      [] step = "count_refresh" ->
            {SaveFailureOutcome(e) : e \in DetailFailures}
      [] OTHER -> {}

\* The sub-step of save_face_data at which the finished call failed.
FailedStep ==
    CASE LastCall = "find_available_faceset" -> "lookup"
      [] LastCall = "get_faceset_detail" ->
            IF "save_face_token" \in CallsMade THEN "count_refresh"
            ELSE "revalidation"
      [] LastCall = "create_faceset" -> "create"
      [] LastCall = "add_face" -> "add"
      [] LastCall = "save_face_token" -> "persistence"
      [] LastCall = "update_faceset_count" -> "count_refresh"
      [] OTHER -> "none"

BeforeAddAccepted == {"lookup", "revalidation", "create", "add"}
AfterAddAccepted == {"persistence", "count_refresh"}

\* The pairs of sub-steps whose failures a caller must be able to tell
\* apart.
MustDiffer(s1, s2) ==
    /\ s1 # s2
    /\ \/ {s1, s2} \subseteq {"add", "persistence", "count_refresh"}
       \/ s1 \in BeforeAddAccepted /\ s2 \in AfterAddAccepted
       \/ s1 \in AfterAddAccepted /\ s2 \in BeforeAddAccepted

\* C22: the outcome of a failed registration identifies the sub-step that
\* failed: failures of the add, of the local persistence and of the count
\* refresh are pairwise distinguishable, and a failure after the provider
\* accepted the add is never the outcome a failure before it can have
\* (the re-validation of the candidate gallery included).
C22_FailureNamesSubStep ==
    (Returned /\ IsFailed(outcome[1]) /\ FailedStep # "none") =>
        \A s \in BeforeAddAccepted \cup AfterAddAccepted :
            MustDiffer(FailedStep, s) => outcome[1] \notin FailureOutcomes(s)


\* C23: registration is idempotent across a partial failure: when a call
\* got its face accepted by the provider and then failed to persist the
\* descriptor, no later call for the same face gets a second descriptor of
\* that face accepted, into the same gallery or another one.
C23_NoSecondAddAfterPartialFailure ==
    \A a, b \in added :
        (a.face = b.face /\ a.face_token < b.face_token) =>
            a.face_token \in StoredTokens(db)


\* The descriptors the provider accepted in this run.
AcceptedTokens == {a.face_token : a \in added}

\* C24 as stated: a descriptor reaches the store only in a call that
\* returns Registered; a call that ends in NoFaceDetected, InvalidFace,
\* DuplicateFound or a failure leaves the persisted descriptors as they
\* were.  (The only descriptor a call can persist is its own probe.)
C24_PersistedOnlyWhenRegistered ==
    Returned =>
        (ProbeToken(callNo) \in StoredTokens(db) => IsRegistered(outcome[1]))

\* C24, amended: a descriptor reaches the store only in a call in which
\* the provider accepted it, and that call returns Registered or fails at
\* the count refresh that follows save_face_token; a call that ends in
\* NoFaceDetected, InvalidFace, DuplicateFound or a failure at or before
\* save_face_token leaves the persisted descriptors as they were.
C24_PersistedOnlyAfterAccepted ==
    Returned =>
        (ProbeToken(callNo) \in StoredTokens(db) =>
            /\ ProbeToken(callNo) \in AcceptedTokens
            /\ \/ IsRegistered(outcome[1])
               \/ IsFailed(outcome[1]) /\ FailedStep = "count_refresh")

\* The descriptor was persisted and the count refresh failed.
C24_Witness ==
    /\ Returned
    /\ IsFailed(outcome[1])
    /\ FailedStep = "count_refresh"
    /\ face_token # None
    /\ face_token[1] \in StoredTokens(db)
    /\ face_token[1] \in AcceptedTokens


\* A call in which no provider request and no store call failed, whose
\* probe passed validation, whose search found no match and to which the
\* store offered no gallery with room.
CleanCallWithoutGallery ==
    /\ Returned
    /\ ~faulted
    /\ detectAnswer = "face_with_traits"
    /\ ranked = Ranked(<<>>)
    /\ detailAnswer = "none"

RegistrationByCreation ==
    <<"find_available_faceset", "create_faceset", "add_face",
      "save_face_token", "get_faceset_detail", "update_faceset_count">>

\* C25: for a valid probe without a match, when the store has no gallery
\* with room and every call succeeds, verify_face creates exactly one
\* gallery, adds the probe to it, persists the descriptor under that
\* gallery's id and returns Registered with the probe descriptor.
C25_RegistersIntoNewGallery ==
    CleanCallWithoutGallery =>
        /\ IsRegistered(outcome[1])
        /\ outcome[1].face_token = Some(ProbeToken(callNo))
        /\ Len(calls) >= Len(RegistrationByCreation)
        /\ SubSeq(calls, Len(calls) - Len(RegistrationByCreation) + 1,
                  Len(calls)) = RegistrationByCreation
        /\ CountWhere(calls, LAMBDA c : c = "create_faceset") = 1
        /\ faceset_id = Some(NewOuterId(created))
        /\ fpp[NewOuterId(created)] = Some(1)
        /\ \E a \in added : /\ a.face_token = ProbeToken(callNo)
                             /\ a.faceset_id = NewOuterId(created)
        /\ \E i \in 1..Len(db) :
              /\ db[i].id = NewOuterId(created)
              /\ db[i].tokens = <<ProbeToken(callNo)>>
        /\ \A a \in added :
              a.face_token = ProbeToken(callNo) =>
                  a.faceset_id = NewOuterId(created)

\* The first registration into an empty world.
C25_Witness ==
    /\ CleanCallWithoutGallery
    /\ callNo = 1
    /\ IsRegistered(outcome[1])
    /\ db = <<GalleryRecord(NewOuterId(1), <<ProbeToken(1)>>, 1)>>
    /\ fpp[NewOuterId(1)] = Some(1)


\* The store's record of gallery g carries face_count n.
RecordedCount(g, n) ==
    \E i \in 1..Len(db) : db[i].id = g /\ db[i].face_count = n

\* C26 as stated: after every call in which the provider accepted the
\* add, the persisted face_count of the target gallery is the provider's
\* count after the add.
C26_CountUpdatedAfterEveryAdd ==
    (Returned /\ ProbeToken(callNo) \in AcceptedTokens) =>
        RecordedCount(faceset_id[1], fpp[faceset_id[1]][1])

\* C26, its last clause: a call that returns Registered was accepted by
\* the provider, and the persisted face_count of the target gallery is
\* the count the provider reported after the add.
C26_CountUpdatedWhenRegistered ==
    (Returned /\ IsRegistered(outcome[1])) =>
        /\ ProbeToken(callNo) \in AcceptedTokens
        /\ details = Some(fpp[faceset_id[1]][1])
        /\ RecordedCount(faceset_id[1], fpp[faceset_id[1]][1])


\* C27: attributes that hold at least one of gender, age and ethnicity
\* pass validation whatever the face-quality score is (absent, zero or
\* below min_face_quality), and the call goes on to the search.
C27_QualityIsAdvisory ==
    (attributes # None /\ HasHumanAttribute(attributes[1])) =>
        /\ pc = "get_all_stored_faces"
        /\ outcome = None
        /\ face_token = Some(ProbeToken(callNo))

\* A face with an age estimate and a quality score below the minimum has
\* passed validation.
C27_Witness ==
    /\ attributes # None
    /\ ~attributes[1].gender /\ attributes[1].age /\ ~attributes[1].ethnicity
    /\ attributes[1].facequality # None
    /\ FaceQualityOf(attributes[1]) > 0
    /\ FaceQualityOf(attributes[1]) < min_face_quality
    /\ pc = "get_all_stored_faces"


\* ------------------------------------------------------------------------
\* resize_image_if_needed
\* ------------------------------------------------------------------------
Normalized == pc = "normalized" /\ output # None

\* The call returned a JPEG it encoded.
EmittedImage == Normalized /\ output[1].kind = "jpeg"

LongerSide(p) == Max(p.width, p.height)
ShorterSide(p) == Min(p.width, p.height)

\* C28: resize_image_if_needed never raises; when decoding, resizing or
\* encoding fails at any step it returns exactly the bytes handed in.
C28_NeverRaisesReturnsInput ==
    /\ ~escaped
    /\ raisedAt # "none" => pc = "normalized" /\ output = Some(image_data)

\* The image was decoded and resized, then the encoder raised: the bytes
\* handed in come back.
C28_Witness ==
    /\ Normalized
    /\ raisedAt = "save"
    /\ img # None
    /\ img[1].width # image_data.width
    /\ output = Some(image_data)


\* C29: for every image whose longer side exceeds max_dimension, extreme
\* aspect ratios included, the image resize_image_if_needed emits has a
\* longer side of at most max_dimension.
C29_LongerSideBounded ==
    (EmittedImage /\ LongerSide(image_data) > max_dimension) =>
        LongerSide(output[1]) <= max_dimension

\* C30: for every image whose shorter side is below min_dimension, the
\* image emitted has a shorter side of at least min_dimension, whichever
\* step of the ladder returns it: the quality loop, the dimension loop or
\* the last resort.
C30_ShorterSideReachesMinimum ==
    (EmittedImage /\ ShorterSide(image_data) < min_dimension) =>
        ShorterSide(output[1]) >= min_dimension


\* Rounds of the quality loop (lines 91-106) and of the dimension loop
\* (lines 110-131) at most, and the img.save calls of one call at most.
QualityRounds == (FirstQuality - QualityFloor + QualityStep - 1) \div QualityStep
ShrinkRounds == FirstScale - ScaleFloor + 1
MaxEncodes == QualityRounds + ShrinkRounds + 1

\* The encodes made so far are the ladder's: one per quality from
\* FirstQuality down while above QualityFloor, then one per scale at
\* ShrinkQuality, then the last resort.
LadderBounded ==
    /\ encodes <= MaxEncodes
    /\ pc = "quality_loop" =>
         /\ quality > QualityFloor
         /\ FirstQuality - quality = QualityStep * encodes
    /\ pc = "shrink_loop" =>
         /\ quality <= QualityFloor
         /\ encodes = QualityRounds + (FirstScale - scale)
    /\ pc = "last_resort" =>
         /\ encodes >= QualityRounds
         /\ encodes <= QualityRounds + ShrinkRounds

\* The bytes returned are no longer than max_size_mb.
OutputWithinBudget ==
    IF output[1].kind = "jpeg" THEN size_mb = "within"
    ELSE output[1].within_budget

\* The bytes returned are the encoding of lines 134-140.
IsLastResortEncoding ==
    /\ EmittedImage
    /\ output[1] = Encoded(img[1], LastResortQuality)
    /\ quality <= QualityFloor
    /\ encodes > QualityRounds

\* The bytes returned are the bytes handed in, after a step raised.
IsFallback == raisedAt # "none" /\ output = Some(image_data)

\* C31 as stated: for every input and every sequence of encoded sizes the
\* call ends after a bounded number of encodes (the quality loop, the
\* dimension loop, one last resort) and its output is within the byte
\* budget or the last-resort encoding.
C31_BudgetOrLastResort ==
    /\ [](LadderBounded /\
          (Normalized => OutputWithinBudget \/ IsLastResortEncoding))
    /\ <>Normalized

\* C31 amended: the call ends after a bounded number of encodes and its
\* output is within the byte budget, the last-resort encoding, or, when a
\* step raised, the bytes handed in whatever their size.
C31_BudgetLastResortOrFallback ==
    /\ [](LadderBounded /\
          (Normalized =>
             OutputWithinBudget \/ IsLastResortEncoding \/ IsFallback))
    /\ <>Normalized

\* Every round of both loops was over budget and so is the last resort.
C31_Witness ==
    /\ Normalized
    /\ IsLastResortEncoding
    /\ size_mb = "over"
    /\ encodes = MaxEncodes


\* ------------------------------------------------------------------------
\* Order of the calls of one verification
\* ------------------------------------------------------------------------
\* The step of the flow the i-th call of this verification belongs to.
\* get_faceset_detail is the re-validation before the descriptor is
\* persisted and the count refresh after it.
StepOf(i) ==
    CASE calls[i] = "detect_face" -> 1
      [] calls[i] = "get_all_stored_faces" -> 2
      [] calls[i] = "search_faces" -> 3
      [] calls[i] = "find_available_faceset" -> 4
      [] calls[i] = "get_faceset_detail" ->
            IF \E j \in 1..(i - 1) : calls[j] = "save_face_token"
            THEN 9 ELSE 5
      [] calls[i] = "create_faceset" -> 6
      [] calls[i] = "add_face" -> 7
      [] calls[i] = "save_face_token" -> 8
      [] OTHER -> 10

StepsTaken == {StepOf(i) : i \in 1..Len(calls)}

\* The store holds descriptor tok in the record of gallery g.
Persisted(tok, g) ==
    \E i \in 1..Len(db) : db[i].id = g /\ Contains(db[i].tokens, tok)

\* C32: the calls of one verification come in the order detect, searches,
\* gallery lookup, re-validation or creation, add, save, count refresh:
\* each step at most once except the searches; no search before Detect
\* returned a valid descriptor, no registration call before the search
\* ended without a match, creation only when the lookup found no gallery,
\* the save only after the provider accepted this descriptor into this
\* gallery, the count refresh only after the save succeeded.
C32_CallsInOrder ==
    /\ \A i \in 1..Len(calls) : \A j \in (i + 1)..Len(calls) :
          \/ StepOf(i) < StepOf(j)
          \/ StepOf(i) = 3 /\ StepOf(j) = 3
    /\ calls # <<>> => calls[1] = "detect_face"
    /\ (StepsTaken \ {1}) # {} =>
          /\ face_token # None
          /\ detectAnswer = "face_with_traits"
          /\ 2 \in StepsTaken
    /\ (StepsTaken \ {1, 2, 3}) # {} =>
          /\ ranked = Ranked(<<>>)
          /\ 4 \in StepsTaken
    /\ 6 \in StepsTaken => 5 \notin StepsTaken
    /\ 7 \in StepsTaken => (5 \in StepsTaken \/ 6 \in StepsTaken)
    /\ 8 \in StepsTaken =>
          /\ 7 \in StepsTaken
          /\ faceset_id # None
          /\ \E a \in added :
                a.face_token = face_token[1] /\ a.faceset_id = faceset_id[1]
    /\ (StepsTaken \cap {9, 10}) # {} =>
          /\ 8 \in StepsTaken
          /\ Persisted(face_token[1], faceset_id[1])
    /\ 10 \in StepsTaken => 9 \in StepsTaken

\* A call that went through every kind of step once: one gallery
\* searched without a match, re-validated, added to, saved, refreshed.
C32_Witness ==
    /\ Returned
    /\ IsRegistered(outcome[1])
    /\ calls = <<"detect_face", "get_all_stored_faces", "search_faces",
                 "find_available_faceset", "get_faceset_detail", "add_face",
                 "save_face_token", "get_faceset_detail",
                 "update_faceset_count">>


\* ------------------------------------------------------------------------
\* The searches of one verification
\* ------------------------------------------------------------------------
\* The store is as get_all_stored_faces read it: this call has not
\* written to it.
StoreAsEnumerated == "save_face_token" \notin CallsMade

\* C33: search_similar_faces issues one search operation for each gallery
\* of the store that has a recorded descriptor and none for a gallery
\* without one, each for the probe descriptor and return_count results.
C33_OneSearchPerNonEmptyGallery ==
    /\ Len(searches) = CountWhere(calls, LAMBDA c : c = "search_faces")
    /\ \A i \in 1..Len(searches) :
          /\ searches[i].return_result_count = return_count
          /\ searches[i].face_token = face_token[1]
          /\ \A j \in 1..Len(searches) :
                searches[i].outer_id = searches[j].outer_id => i = j
          /\ \E k \in 1..Len(db) :
                db[k].id = searches[i].outer_id /\ db[k].tokens # <<>>
    /\ (ranked.done /\ StoreAsEnumerated) =>
          \A k \in 1..Len(db) :
              db[k].tokens # <<>> =>
                  \E i \in 1..Len(searches) : searches[i].outer_id = db[k].id

\* The store lists a gallery without descriptors before a populated one:
\* the finished search made one operation, for the populated gallery.
C33_Witness ==
    /\ ranked.done
    /\ StoreAsEnumerated
    /\ Len(db) = 2
    /\ db[1].tokens = <<>>
    /\ searches = <<SearchData(face_token[1], db[2].id)>>


\* ------------------------------------------------------------------------
\* Termination of verify_face
\* ------------------------------------------------------------------------
\* How many of the five variants of VerificationOutcome o is.
VariantsOf(o) ==
    {v \in {"NoFaceDetected", "InvalidFace", "DuplicateFound", "Registered",
            "Failed"} :
        CASE v = "NoFaceDetected" -> IsNoFaceDetected(o)
          [] v = "InvalidFace" -> IsInvalidFace(o)
          [] v = "DuplicateFound" -> IsDuplicateFound(o) /\ o.is_duplicate
          [] v = "Registered" -> IsRegistered(o) /\ ~o.is_duplicate
          [] OTHER -> IsFailed(o)}

\* C34: when every provider request and store call returns or fails,
\* every verify_face call ends with exactly one of NoFaceDetected,
\* InvalidFace, DuplicateFound, Registered and Failed; the outcome of a
\* call never changes once it is there, and no call stays forever in
\* detection, search or registration.
C34_EveryCallEndsInOneOutcome ==
    /\ [](pc = "done" =>
            /\ ~escaped
            /\ outcome # None
            /\ Cardinality(VariantsOf(outcome[1])) = 1)
    /\ [](outcome # None => pc = "done")
    /\ [][(outcome # None /\ callNo' = callNo) => outcome' = outcome]_vars
    /\ (pc # "idle") ~> (pc = "done")

\* A call whose requests were retried and which still registered.
C34_Witness ==
    /\ Returned
    /\ IsRegistered(outcome[1])
    /\ faulted
    /\ Len(searches) >= 1


\* ------------------------------------------------------------------------
\* What a Registered outcome rests on
\* ------------------------------------------------------------------------
\* Galleries into which the provider accepted descriptor tok.
AcceptedInto(tok) == {a.faceset_id : a \in {b \in added : b.face_token = tok}}

\* Galleries under which the store records descriptor tok.
PersistedUnder(tok) ==
    {db[i].id : i \in {k \in 1..Len(db) : Contains(db[k].tokens, tok)}}

\* C35: when verify_face returns Registered for a descriptor, there is
\* one gallery into which the provider accepted the descriptor in this
\* call and under which the store recorded it in this call: the same
\* gallery in both, and no other.
C35_RegisteredIntoOneGallery ==
    (Returned /\ IsRegistered(outcome[1])) =>
        /\ outcome[1].face_token = face_token
        /\ faceset_id # None
        /\ AcceptedInto(face_token[1]) = {faceset_id[1]}
        /\ PersistedUnder(face_token[1]) = {faceset_id[1]}
        /\ CountWhere(calls, LAMBDA c : c = "add_face") = 1
        /\ CountWhere(calls, LAMBDA c : c = "save_face_token") = 1

\* The second call registers into a gallery it created, after the first
\* call registered into another one.
C35_Witness ==
    /\ Returned
    /\ IsRegistered(outcome[1])
    /\ callNo = 2
    /\ faceset_id[1] \in CreatedGalleries
    /\ \E a \in added : a.faceset_id # faceset_id[1]
    /\ Cardinality(AcceptedInto(face_token[1])) = 1


\* ------------------------------------------------------------------------
\* A registered face is found again
\* ------------------------------------------------------------------------
\* Galleries into which an earlier call registered descriptor tok: the
\* provider accepted it there and the store records it there.
RegisteredInto(tok) == AcceptedInto(tok) \cap PersistedUnder(tok)

\* The provider answered a search of this call with a match of the probe
\* with descriptor tok at or above the threshold: in the results handed
\* back, or in the list search_similar_faces made of them.
ProviderMatched(tok) ==
    \/ \E i \in 1..Len(provided) :
          provided[i].face_token = tok /\ MeetsThreshold(provided[i])
    \/ \E i \in 1..Len(ranked.list) : ranked.list[i].face_token = tok

\* C36: without failures, a descriptor registered by an earlier call is
\* found again: every later call asks the provider about its gallery,
\* and when the provider matches the probe with it at or above the
\* threshold the call returns DuplicateFound and adds nothing to any
\* gallery.
C36_RegisteredFaceFoundAgain ==
    \A n \in 1..(callNo - 1) :
        \A g \in RegisteredInto(ProbeToken(n)) :
            ~faulted =>
                /\ ranked.done => g \in searchedOk
                /\ ProviderMatched(ProbeToken(n)) =>
                      /\ pc \in {"search_faces", "search_returned", "done"}
                      /\ ranked.done => ranked.list # <<>>
                      /\ pc = "done" =>
                            outcome # None /\ IsDuplicateFound(outcome[1])
                      /\ CallsMade \cap RegistrationCalls = {}
                      /\ AcceptedInto(face_token[1]) = {}

\* The first call registered into a gallery it created; the provider
\* matches the probe of the second call with that descriptor and the
\* second call returns DuplicateFound.
C36_Witness ==
    /\ callNo = 2
    /\ ~faulted
    /\ Returned
    /\ IsDuplicateFound(outcome[1])
    /\ db = <<GalleryRecord(NewOuterId(1), <<ProbeToken(1)>>, 1)>>
    /\ ProviderMatched(ProbeToken(1))
    /\ outcome[1].confidence = Some(95)
    /\ added = {Accepted(1, ProbeToken(1), NewOuterId(1))}


\* ------------------------------------------------------------------------
\* What a registration rests on
\* ------------------------------------------------------------------------
\* Galleries of the store with a recorded descriptor.
NonEmptyGalleries == {db[k].id : k \in {i \in 1..Len(db) : db[i].tokens # <<>>}}

\* The search handed verify_face an empty list exactly when no result
\* of a successful search reached the threshold.
EmptyListMeansNoMatch ==
    pc = "search_returned" =>
        (ranked.list = <<>> <=>
            \A i \in 1..Len(provided) : ~MeetsThreshold(provided[i]))

\* C37 as stated: add_face_to_faceset is called only when every gallery
\* with a recorded descriptor was searched successfully in this call and
\* none returned a match at or above the threshold; a call in which the
\* search of some gallery failed never ends in Registered.
C37_RegistersOnlyAfterAllSearchesSucceeded ==
    /\ EmptyListMeansNoMatch
    /\ "add_face" \in CallsMade =>
          /\ ranked = Ranked(<<>>)
          /\ searchFailed = {}
          /\ StoreAsEnumerated => NonEmptyGalleries \subseteq searchedOk
    /\ (Returned /\ searchFailed # {}) => ~IsRegistered(outcome[1])

\* C37 amended: add_face_to_faceset is called only when a search was
\* issued for every gallery with a recorded descriptor in this call and
\* none of those that succeeded returned a match at or above the
\* threshold; a gallery whose search failed counts as without match, and
\* such a call can end in Registered.
C37_RegistersAfterEveryGalleryTried ==
    /\ EmptyListMeansNoMatch
    /\ "add_face" \in CallsMade =>
          /\ ranked = Ranked(<<>>)
          /\ searchedOk \cap searchFailed = {}
          /\ Len(searches) = Cardinality(searchedOk \cup searchFailed)
          /\ StoreAsEnumerated =>
                NonEmptyGalleries = searchedOk \cup searchFailed

\* The search of one gallery failed, the search of the other one found
\* nothing, and the probe was registered.
C37_Witness ==
    /\ Returned
    /\ IsRegistered(outcome[1])
    /\ searchFailed # {}
    /\ searchedOk # {}


\* ------------------------------------------------------------------------
\* Concurrent calls with the same face
\* ------------------------------------------------------------------------
\* The calls that returned Registered.
RegisteredTasks == {t \in Tasks : tasks[t].pc = "done"}

\* C38: of two concurrent verify_face calls with pictures of one person,
\* however their search and registration steps interleave, at most one
\* returns Registered.
C38_AtMostOneRegistered == Cardinality(RegisteredTasks) <= 1


\* ------------------------------------------------------------------------
\* C39: for every interleaving of the loader thread with the request
\* handlers, once is_vectorstore_ready() has returned true a later
\* get_vectorstore() returns the loaded store, which is not None, and does
\* not raise; is_loading goes from true to false exactly once and never
\* back; load_error and a loaded store are never both set.
\* ------------------------------------------------------------------------
\* The state in which every get_vectorstore call returns the store.
StoreServed ==
    /\ ~vector_state.is_loading
    /\ vector_state.load_error = None
    /\ vector_state.vectorstore # None

SeenReady == \E h \in Handlers : handlers[h].ready = Some(TRUE)

\* The handler's own get_vectorstore, called after its readiness check.
GotTheStore(h) ==
    handlers[h].got.kind # "not_called"
        => /\ handlers[h].got.kind = "return"
           /\ handlers[h].got.value # None
           /\ handlers[h].got.value = vector_state.vectorstore

C39_ReadyStoreIsServed ==
    /\ [](SeenReady => StoreServed)
    /\ [](\A h \in Handlers : handlers[h].ready = Some(TRUE) => GotTheStore(h))
    /\ [][StoreServed => StoreServed']_vars
    /\ [][~vector_state.is_loading => ~vector_state.is_loading']_vars
    /\ <>(~vector_state.is_loading)
    /\ [](~(vector_state.load_error # None /\ vector_state.vectorstore # None))

\* A handler saw the store ready while the other was told it was still
\* loading, and its get_vectorstore returned the created store.
C39_Witness ==
    \E h, k \in Handlers :
        /\ handlers[h].ready = Some(TRUE)
        /\ handlers[h].got = Got("return", Some("created_index"))
        /\ handlers[k].answer = "still_loading"

====
